---- MODULE Spec2Model ----
(***************************************************************************)
(* dev-collab: team / project / task management over a hosted relational   *)
(* backend with row level security.                                        *)
(*                                                                         *)
(* The model has four parts, each with its own next-state relation over    *)
(* the same variables:                                                     *)
(*   SpecProfiles  signup trigger and the profiles policies                *)
(*   SpecAccess    project, task, subtask and message visibility           *)
(*   SpecTaskForm  TaskForm.handleSubmit (create and edit) and the         *)
(*                 assignment notifications it writes                      *)
(*   SpecNotif     the useNotifications hook and its realtime feed         *)
(***************************************************************************)
EXTENDS Integers, Sequences, FiniteSets, TLC

(***************************************************************************)
(* Universe.  Root is the first admin, which the initial migration says is *)
(* set up by hand after the first signup.                                  *)
(***************************************************************************)
Root == "a"
Users == {"a", "b", "c"}
Projects == {"p", "q"}
Tasks == {"t"}
Subtasks == {"s"}
Messages == {"m"}
Roles == {"developer", "admin"}
Names == {"n0", "n1"}
NULL == "NULL"

(***************************************************************************)
(* The migrations directory holds several generations of the profiles      *)
(* policies and of handle_new_user; which one a database carries depends   *)
(* on the order in which the migrations were applied, so the generation is *)
(* chosen when the database is set up.                                     *)
(*   initial  122839:211-222 and 306-323                                   *)
(*   checked  111547:21-41 and 49-67 (111606:18-38)                        *)
(*   basic    111606:62-87, 113936:34-37                                   *)
(*   latest   122839:2-21 and 45-68                                        *)
(***************************************************************************)
Schemas == {"initial", "checked", "basic", "latest"}

VARIABLES
    schema,              \* generation of the profiles policies / signup trigger
    auth_uid,            \* auth.uid() of the request the backend served last
    auth_users,          \* auth.users: the identities
    profiles,            \* public.profiles rows
    projects,            \* public.projects rows
    project_members,     \* public.project_members rows
    tasks,               \* public.tasks rows
    task_assignments,    \* public.task_assignments rows
    subtasks,            \* public.subtasks rows
    messages,            \* public.messages rows
    notifications,       \* public.notifications rows, in order of creation
    form,                \* TaskForm.handleSubmit in progress
    hook,                \* useNotifications state: notifications, unreadCount
    inflight,            \* hook requests whose response has not been handled
    channel,             \* realtime events not yet delivered to the hook
    details,             \* TaskDetails of one session: its local state
    board,               \* Tasks page of one session: its local state
    route,               \* ProtectedRoute: the values of useAuth and what is rendered
    team,                \* Team page of one session: its local state
    peer,                \* TaskForm of a second session: position and values
    projectForm          \* ProjectForm of one session: its values and outcome

accessVars == <<projects, project_members, tasks, task_assignments, subtasks,
                messages>>
pageVars == <<details, board, route, team, peer, projectForm>>
formVars == <<form, pageVars>>
hookVars == <<hook, inflight, channel>>
vars == <<schema, auth_uid, auth_users, profiles, projects, project_members, tasks,
          task_assignments, subtasks, messages, notifications, form, hook,
          inflight, channel, details, board, route, team, peer, projectForm>>

----------------------------------------------------------------------------
(* Backend predicates                                                      *)

has_role_ignoring_approval(_user_id, _role) ==
    \E r \in profiles : r.user_id = _user_id /\ r.role = _role

has_role(_user_id, _role) ==
    \E r \in profiles :
        r.user_id = _user_id /\ r.role = _role /\ r.is_approved = TRUE

is_admin(_user_id) == has_role(_user_id, "admin")

can_access_project(_user_id, _project_id) ==
    \/ \E pm \in project_members : \E p \in profiles :
          /\ p.user_id = pm.user_id
          /\ pm.project_id = _project_id
          /\ pm.user_id = _user_id
          /\ p.is_approved = TRUE
    \/ is_admin(_user_id)

get_current_user_role(uid) ==
    IF \E r \in profiles : r.user_id = uid
    THEN (CHOOSE r \in profiles : r.user_id = uid).role
    ELSE NULL

----------------------------------------------------------------------------
(* Policies on public.profiles.  Policies are permissive: a row is touched *)
(* when some policy's USING admits it, and the written row must pass some  *)
(* policy's WITH CHECK (a policy without one checks its USING).            *)

\* "Users can update own profile" of the initial schema: USING only.
UsersCanUpdateOwnProfileInitial(uid, old, new) == uid = new.user_id

\* "Users can update own profile basic info" as recreated without OLD.
UsersCanUpdateOwnProfileBasicInfo(uid, old, new) == uid = new.user_id

\* "Users can update own profile" with the OLD comparison.
UsersCanUpdateOwnProfile(uid, old, new) ==
    /\ uid = new.user_id
    /\ new.role = old.role
    /\ new.is_approved = old.is_approved

\* "Admins can manage all profiles", by is_admin / by an approved admin row.
AdminsCanManageAllProfiles(uid) == is_admin(uid)

\* "Admins can manage all profiles", by get_current_user_role().
AdminsCanManageAllProfilesByRole(uid) == get_current_user_role(uid) = "admin"

\* "Service role can manage profiles": client requests run as 'authenticated'.
ServiceRoleCanManageProfiles(auth_role) == auth_role = "service_role"

AdminPolicy(uid) ==
    CASE schema \in {"initial", "checked"} -> AdminsCanManageAllProfiles(uid)
      [] schema = "basic" -> AdminsCanManageAllProfilesByRole(uid)
      [] schema = "latest" -> ServiceRoleCanManageProfiles("authenticated")

ProfilesUpdateUsing(uid, row) ==
    \/ uid = row.user_id
    \/ AdminPolicy(uid)

ProfilesUpdateCheck(uid, old, new) ==
    \/ CASE schema = "initial" -> UsersCanUpdateOwnProfileInitial(uid, old, new)
         [] schema = "basic" -> UsersCanUpdateOwnProfileBasicInfo(uid, old, new)
         [] schema \in {"checked", "latest"} -> UsersCanUpdateOwnProfile(uid, old, new)
    \/ AdminPolicy(uid)

----------------------------------------------------------------------------
(* A PostgREST update carries only the columns it sets.                    *)

SetApproval(approve) ==
    [cols |-> {"is_approved"}, role |-> "developer", is_approved |-> approve,
     first_name |-> "n0"]

SetRole(newRole) ==
    [cols |-> {"role"}, role |-> newRole, is_approved |-> FALSE,
     first_name |-> "n0"]

SetName(name) ==
    [cols |-> {"first_name"}, role |-> "developer", is_approved |-> FALSE,
     first_name |-> name]

ApprovalPatches == {SetApproval(b) : b \in BOOLEAN}
RolePatches == {SetRole(r) : r \in Roles}
NamePatches == {SetName(n) : n \in Names}

ApplyPatch(row, patch) ==
    [user_id |-> row.user_id,
     role |-> IF "role" \in patch.cols THEN patch.role ELSE row.role,
     is_approved |-> IF "is_approved" \in patch.cols
                     THEN patch.is_approved ELSE row.is_approved,
     first_name |-> IF "first_name" \in patch.cols
                    THEN patch.first_name ELSE row.first_name]

----------------------------------------------------------------------------
(* Signup: an insert into auth.users fires on_auth_user_created.           *)

\* handle_new_user with explicit role and approval; an error aborts the signup.
HandleNewUserStrict(id, email, first_name) ==
    IF email = NULL
    THEN /\ auth_users' = auth_users
         /\ profiles' = profiles
    ELSE /\ auth_users' = auth_users \cup {id}
         /\ profiles' = profiles \cup
               {[user_id |-> id, role |-> "developer", is_approved |-> FALSE,
                 first_name |-> first_name]}

\* handle_new_user with EXCEPTION WHEN OTHERS: the signup goes through even
\* when the profile insert fails (profiles.email is NOT NULL); role and
\* is_approved come from the column defaults.
HandleNewUserLenient(id, email, first_name) ==
    /\ auth_users' = auth_users \cup {id}
    /\ IF email = NULL
       THEN profiles' = profiles
       ELSE profiles' = profiles \cup
               {[user_id |-> id, role |-> "developer", is_approved |-> FALSE,
                 first_name |-> first_name]}

handle_new_user(id, email, first_name) ==
    IF schema = "latest"
    THEN HandleNewUserLenient(id, email, first_name)
    ELSE HandleNewUserStrict(id, email, first_name)

SignUp(id, email, first_name) ==
    /\ id \notin auth_users
    /\ handle_new_user(id, email, first_name)
    /\ auth_uid' = id
    /\ UNCHANGED <<schema, accessVars, notifications, formVars, hookVars>>

----------------------------------------------------------------------------
(* supabase.from('profiles').update(patch).eq('user_id', target)           *)

UpdateProfile(uid, target, patch) ==
    /\ uid \in auth_users
    /\ LET rows == {r \in profiles :
                      r.user_id = target /\ ProfilesUpdateUsing(uid, r)}
       IN IF \A r \in rows : ProfilesUpdateCheck(uid, r, ApplyPatch(r, patch))
          THEN profiles' = (profiles \ rows) \cup
                              {ApplyPatch(r, patch) : r \in rows}
          ELSE profiles' = profiles
    /\ auth_uid' = uid
    /\ UNCHANGED <<schema, auth_users, accessVars, notifications, formVars,
                   hookVars>>

\* Team.handleApproval and Team.handleRoleChange
handleApproval(uid, userId, approve) ==
    UpdateProfile(uid, userId, SetApproval(approve))

handleRoleChange(uid, userId, newRole) ==
    UpdateProfile(uid, userId, SetRole(newRole))

----------------------------------------------------------------------------
RootProfile ==
    [user_id |-> Root, role |-> "admin", is_approved |-> TRUE,
     first_name |-> "n0"]

\* TaskDetails before it is mounted: useState initial values.
ClosedDetails ==
    [open |-> FALSE, uid |-> Root, task |-> NULL, subtasks |-> {},
     messages |-> {}, newMessage |-> "", fileToUpload |-> NULL,
     pending |-> <<>>, events |-> 0, pair |-> <<>>]

\* The Tasks page before it is mounted.
ClosedBoard ==
    [open |-> FALSE, uid |-> Root, tasks |-> {}, pending |-> <<>>]

NoRoute ==
    [loading |-> TRUE, user |-> NULL, profile |-> {},
     requireAdmin |-> FALSE, rendered |-> "spinner"]

\* The edit form of the second session before a submit.
IdlePeer ==
    [pc |-> "idle", uid |-> Root, task |-> NULL, assigned_users |-> {},
     currentUserIds |-> {}, newUserIds |-> {}, toast |-> "none",
     failed |-> FALSE, notified |-> {}]

\* ProjectForm before its dialog is opened.
ClosedProjectForm ==
    [open |-> FALSE, uid |-> Root, members |-> <<>>, leaders |-> <<>>,
     project |-> NULL, toast |-> "none"]

\* The Team page before it is mounted.
ClosedTeam ==
    [open |-> FALSE, uid |-> Root, members |-> {}, pending |-> <<>>,
     toast |-> "none"]

PagesClosed ==
    /\ details = ClosedDetails
    /\ board = ClosedBoard
    /\ route = NoRoute
    /\ team = ClosedTeam
    /\ peer = IdlePeer
    /\ projectForm = ClosedProjectForm

IdleForm ==
    [pc |-> "idle", uid |-> Root, task |-> NULL, newTask |-> NULL,
     project_id |-> NULL,
     assigned_users |-> {}, currentUserIds |-> {}, newUserIds |-> {},
     toast |-> "none", stored |-> {}, failed |-> FALSE, notified |-> {},
     stopped |-> FALSE, after_stop |-> FALSE]

Init ==
    /\ schema \in Schemas
    /\ auth_uid = Root
    /\ auth_users = {Root}
    /\ profiles = {RootProfile}
    /\ projects = {}
    /\ project_members = {}
    /\ tasks = {}
    /\ task_assignments = {}
    /\ subtasks = {}
    /\ messages = {}
    /\ notifications = <<>>
    /\ form = IdleForm
    /\ hook = [mounted |-> FALSE, notifications |-> <<>>, unreadCount |-> 0]
    /\ inflight = <<>>
    /\ channel = <<>>
    /\ PagesClosed

NextProfiles ==
    \/ \E id \in Users, email \in {"mail", NULL}, n \in Names :
          SignUp(id, email, n)
    \/ \E uid \in Users, target \in Users, patch \in NamePatches :
          UpdateProfile(uid, target, patch)
    \/ \E uid \in Users, userId \in Users, approve \in BOOLEAN :
          handleApproval(uid, userId, approve)
    \/ \E uid \in Users, userId \in Users, newRole \in Roles :
          handleRoleChange(uid, userId, newRole)

SpecProfiles == Init /\ [][NextProfiles]_vars

----------------------------------------------------------------------------
(* Policies on projects, project_members, tasks, task_assignments,         *)
(* subtasks and messages.  "Admins can manage ..." are FOR ALL policies:   *)
(* they admit reads and writes of an approved admin.                       *)

ProjectsSelect(uid, row) ==
    \/ can_access_project(uid, row.id)
    \/ is_admin(uid)

ProjectsWrite(uid) == is_admin(uid)

ProjectMembersSelect(uid, row) ==
    \/ can_access_project(uid, row.project_id)
    \/ is_admin(uid)

ProjectMembersWriteLeaders(uid) ==
    \/ is_admin(uid)
    \/ \E pm \in project_members : pm.user_id = uid /\ pm.is_leader

ProjectMembersWrite(uid) == is_admin(uid)

TasksSelectAssigned(uid, row) ==
    \/ can_access_project(uid, row.project_id)
    \/ \E ta \in task_assignments : ta.task_id = row.id /\ ta.user_id = uid
    \/ is_admin(uid)

TasksSelect(uid, row) ==
    \/ can_access_project(uid, row.project_id)
    \/ is_admin(uid)

TasksWrite(uid) == is_admin(uid)

TaskAssignmentsSelect(uid, row) ==
    \/ \E t \in tasks :
          t.id = row.task_id /\ can_access_project(uid, t.project_id)
    \/ is_admin(uid)

TaskAssignmentsWrite(uid) == is_admin(uid)

SubtasksSelect(uid, row) ==
    \/ \E t \in tasks :
          t.id = row.task_id /\ can_access_project(uid, t.project_id)
    \/ is_admin(uid)

SubtasksInsert(uid) == is_admin(uid)

MessagesSelect(uid, row) ==
    \/ row.project_id # NULL /\ can_access_project(uid, row.project_id)
    \/ /\ row.task_id # NULL
       /\ \E t \in tasks :
             t.id = row.task_id /\ can_access_project(uid, t.project_id)

MessagesInsert(uid, row) ==
    /\ row.sender_id = uid
    /\ \/ row.project_id # NULL /\ can_access_project(uid, row.project_id)
       \/ /\ row.task_id # NULL
          /\ \E t \in tasks :
                t.id = row.task_id /\ can_access_project(uid, t.project_id)

----------------------------------------------------------------------------
(* Reads under row level security                                          *)

SelectProjects(uid) == {r \in projects : ProjectsSelect(uid, r)}
SelectProjectMembers(uid) == {r \in project_members : ProjectMembersSelect(uid, r)}
SelectTasks(uid) == {r \in tasks : TasksSelect(uid, r)}
SelectTaskAssignments(uid) == {r \in task_assignments : TaskAssignmentsSelect(uid, r)}
SelectSubtasks(uid) == {r \in subtasks : SubtasksSelect(uid, r)}
SelectMessages(uid) == {r \in messages : MessagesSelect(uid, r)}

\* useAuth().isAdmin, read as ProtectedRoute reads the role.
isAdmin(uid) == get_current_user_role(uid) = "admin"

\* Projects.fetchProjects: the ids of the projects the page lists.
fetchProjects(uid) ==
    IF ~isAdmin(uid)
    THEN LET projectIds == {pm.project_id :
                               pm \in {r \in SelectProjectMembers(uid) :
                                          r.user_id = uid}}
         IN IF projectIds = {}
            THEN {}
            ELSE {r.id : r \in {x \in SelectProjects(uid) : x.id \in projectIds}}
    ELSE {r.id : r \in SelectProjects(uid)}

\* ProjectForm.fetchUsers / TaskForm.fetchUsers: the profiles offered.
fetchUsers == {r.user_id : r \in {x \in profiles : x.is_approved = TRUE}}

----------------------------------------------------------------------------
(* Writes under row level security                                         *)

\* ProjectForm.handleSubmit: the project, then its members.
CreateProject(uid, id, members) ==
    /\ uid \in auth_users
    /\ id \notin {r.id : r \in projects}
    /\ members \subseteq fetchUsers
    /\ IF ProjectsWrite(uid)
       THEN /\ projects' = projects \cup {[id |-> id]}
            /\ IF members # {} /\ ProjectMembersWrite(uid)
               THEN project_members' = project_members \cup
                       {[project_id |-> id, user_id |-> m] : m \in members}
               ELSE project_members' = project_members
       ELSE UNCHANGED <<projects, project_members>>
    /\ auth_uid' = uid
    /\ UNCHANGED <<schema, auth_users, profiles, tasks, task_assignments,
                   subtasks, messages, notifications, formVars, hookVars>>

\* supabase.from('tasks').insert([taskData])
InsertTask(uid, id, project_id) ==
    /\ uid \in auth_users
    /\ id \notin {r.id : r \in tasks}
    /\ project_id \in {r.id : r \in projects}
    /\ IF TasksWrite(uid)
       THEN tasks' = tasks \cup
               {[id |-> id, project_id |-> project_id, created_by |-> uid,
                 status |-> "todo"]}
       ELSE tasks' = tasks
    /\ auth_uid' = uid
    /\ UNCHANGED <<schema, auth_users, profiles, projects, project_members,
                   task_assignments, subtasks, messages, notifications,
                   formVars, hookVars>>

\* supabase.from('task_assignments').insert(assignments)
InsertTaskAssignments(uid, task_id, assigned_users) ==
    /\ uid \in auth_users
    /\ task_id \in {r.id : r \in tasks}
    /\ assigned_users # {}
    /\ assigned_users \subseteq fetchUsers
    /\ IF /\ TaskAssignmentsWrite(uid)
          /\ \A ta \in task_assignments :
                ~(ta.task_id = task_id /\ ta.user_id \in assigned_users)
       THEN task_assignments' = task_assignments \cup
               {[task_id |-> task_id, user_id |-> u] : u \in assigned_users}
       ELSE task_assignments' = task_assignments
    /\ auth_uid' = uid
    /\ UNCHANGED <<schema, auth_users, profiles, projects, project_members,
                   tasks, subtasks, messages, notifications, formVars,
                   hookVars>>

\* TaskDetails.addSubtask
addSubtask(uid, id, task_id) ==
    /\ uid \in auth_users
    /\ id \notin {r.id : r \in subtasks}
    /\ task_id \in {r.id : r \in tasks}
    /\ IF SubtasksInsert(uid)
       THEN subtasks' = subtasks \cup
               {[id |-> id, task_id |-> task_id, created_by |-> uid,
                 is_completed |-> FALSE]}
       ELSE subtasks' = subtasks
    /\ auth_uid' = uid
    /\ UNCHANGED <<schema, auth_users, profiles, projects, project_members,
                   tasks, task_assignments, messages, notifications,
                   formVars, hookVars>>

\* TaskDetails.addMessage: a comment on a task (no project_id).
addMessage(uid, id, task_id) ==
    /\ uid \in auth_users
    /\ id \notin {r.id : r \in messages}
    /\ task_id \in {r.id : r \in tasks}
    /\ LET row == [id |-> id, task_id |-> task_id, project_id |-> NULL,
                   sender_id |-> uid]
       IN IF MessagesInsert(uid, row)
          THEN messages' = messages \cup {row}
          ELSE messages' = messages
    /\ auth_uid' = uid
    /\ UNCHANGED <<schema, auth_users, profiles, projects, project_members,
                   tasks, task_assignments, subtasks, notifications,
                   formVars, hookVars>>

\* The forms are driven from Root's session; every user issues profile
\* updates and comments.
NextAccess ==
    \/ \E id \in Users : SignUp(id, "mail", "n0")
    \/ \E uid \in Users, userId \in Users \ {Root}, approve \in BOOLEAN :
          handleApproval(uid, userId, approve)
    \/ \E uid \in Users, userId \in Users \ {Root}, newRole \in Roles :
          handleRoleChange(uid, userId, newRole)
    \/ \E id \in Projects, members \in SUBSET (Users \ {Root}) :
          CreateProject(Root, id, members)
    \/ \E id \in Tasks, project_id \in Projects :
          InsertTask(Root, id, project_id)
    \/ \E task_id \in Tasks, assigned \in SUBSET (Users \ {Root}) :
          InsertTaskAssignments(Root, task_id, assigned)
    \/ \E id \in Subtasks, task_id \in Tasks :
          addSubtask(Root, id, task_id)
    \/ \E uid \in Users, id \in Messages, task_id \in Tasks :
          addMessage(uid, id, task_id)

SpecAccess == Init /\ [][NextAccess]_vars

----------------------------------------------------------------------------
(* TaskForm.handleSubmit, one step per awaited request.  ok is the outcome *)
(* of the request: FALSE is an error returned by the backend client.       *)
(* form.stored, form.failed and form.notified record, for the submit in    *)
(* progress, the assignment set stored when it started, whether a request  *)
(* returned an error, and the ids of the notifications it inserted.        *)
(* form.stopped says that an edit ended after its delete and without its   *)
(* insert, leaving the task without assignee; form.after_stop that the     *)
(* submit in progress is the one that follows such an edit.                *)

MaxNotifications == 3

UserOrder == <<"a", "b", "c">>

\* The elements of a set of users as a list, in the order of UserOrder.
AsList(S) == SelectSeq(UserOrder, LAMBDA u : u \in S)

NotificationIds == {notifications[i].id : i \in 1..Len(notifications)}

\* ids are generated by the backend and never used twice
NextNotificationId ==
    IF notifications = <<>> THEN 1
    ELSE 1 + CHOOSE m \in NotificationIds : \A k \in NotificationIds : k <= m

StoredAssignees(task_id) ==
    {ta.user_id : ta \in {x \in task_assignments : x.task_id = task_id}}

NewUserIdsAll(assigned_users, currentUserIds) == assigned_users

\* data.assigned_users.filter(userId => !currentUserIds.includes(userId))
NewUserIds(assigned_users, currentUserIds) ==
    assigned_users \ currentUserIds

AssignmentNotificationsTwice(taskId, assignedUserIds, firstId) ==
    [i \in 1..(2 * Len(assignedUserIds)) |->
        [id |-> firstId + i - 1, user_id |-> assignedUserIds[(i + 1) \div 2],
         read |-> FALSE, related_id |-> taskId]]

\* createTaskAssignmentNotifications: the rows of the batch insert.
AssignmentNotifications(taskId, assignedUserIds, firstId) ==
    [i \in 1..Len(assignedUserIds) |->
        [id |-> firstId + i - 1, user_id |-> assignedUserIds[i],
         read |-> FALSE, related_id |-> taskId]]

\* createTaskAssignmentNotifications: an error of the insert is logged only.
createTaskAssignmentNotifications(taskId, assignedUserIds, ok) ==
    LET rows == AssignmentNotifications(taskId, AsList(assignedUserIds),
                                        NextNotificationId)
    IN IF ok
       THEN /\ notifications' = notifications \o rows
            /\ form' = [form EXCEPT !.pc = "idle", !.toast = "success",
                           !.notified = {rows[i].id : i \in 1..Len(rows)}]
       ELSE /\ notifications' = notifications
            /\ form' = [form EXCEPT !.pc = "idle", !.toast = "success",
                           !.failed = TRUE]

formFrame == <<schema, auth_users, profiles, projects, project_members,
               subtasks, messages, hookVars, pageVars>>

\* defaultValues of useForm: assigned_users is [] for a new task and for an
\* existing one; nothing loads the task's assignments into the form.
DefaultAssignedUsers(task) == {}

\* handleSubmit is entered: form.handleSubmit(handleSubmit) of an open form.
\* task is NULL for the creation form.
Submit(uid, task, project_id, assigned_users) ==
    /\ form.pc = "idle"
    /\ uid \in auth_users
    /\ assigned_users \subseteq fetchUsers
    /\ project_id \in {r.id : r \in projects}
    /\ IF task = NULL
       THEN \E id \in Tasks : id \notin {r.id : r \in tasks}
       ELSE \E r \in tasks : r.id = task /\ r.project_id = project_id
    /\ Len(notifications) + Cardinality(assigned_users) <= MaxNotifications
    /\ form' = [pc |-> IF task = NULL THEN "create_task" ELSE "edit_select",
                uid |-> uid, task |-> task, newTask |-> NULL,
                project_id |-> project_id,
                assigned_users |-> assigned_users, currentUserIds |-> {},
                newUserIds |-> {}, toast |-> "none",
                stored |-> IF task = NULL THEN {} ELSE StoredAssignees(task),
                failed |-> FALSE, notified |-> {},
                stopped |-> FALSE, after_stop |-> form.stopped]
    /\ UNCHANGED <<auth_uid, tasks, task_assignments, notifications, formFrame>>

\* catch: the error toast
Failed == [form EXCEPT !.pc = "idle", !.toast = "error", !.failed = TRUE]

\* lines 165-171: the current assignments are read; an error is not looked at.
EditSelect(ok) ==
    /\ form.pc = "edit_select"
    /\ LET currentAssignments ==
               IF ok
               THEN {r \in SelectTaskAssignments(form.uid) :
                        r.task_id = form.task}
               ELSE {}
           currentUserIds == {a.user_id : a \in currentAssignments}
       IN form' = [form EXCEPT
                      !.pc = "edit_update",
                      !.currentUserIds = currentUserIds,
                      !.newUserIds = NewUserIds(form.assigned_users,
                                                currentUserIds),
                      !.failed = ~ok]
    /\ auth_uid' = form.uid
    /\ UNCHANGED <<tasks, task_assignments, notifications, formFrame>>

\* lines 174-186: the task row is updated (no modelled column changes).
EditUpdate(ok) ==
    /\ form.pc = "edit_update"
    /\ IF ok THEN form' = [form EXCEPT !.pc = "edit_delete"]
       ELSE form' = Failed
    /\ auth_uid' = form.uid
    /\ UNCHANGED <<tasks, task_assignments, notifications, formFrame>>

\* lines 190-193: the assignments are deleted; the result is not looked at.
EditDelete(ok) ==
    /\ form.pc = "edit_delete"
    /\ IF ok /\ TaskAssignmentsWrite(form.uid)
       THEN task_assignments' =
               {r \in task_assignments : r.task_id # form.task}
       ELSE task_assignments' = task_assignments
    /\ form' = [form EXCEPT
                   !.pc = IF form.assigned_users = {}
                          THEN "idle" ELSE "edit_insert",
                   !.toast = IF form.assigned_users = {}
                             THEN "success" ELSE "none",
                   !.failed = form.failed \/ ~ok]
    /\ auth_uid' = form.uid
    /\ UNCHANGED <<tasks, notifications, formFrame>>

AssignmentsButRoot(task_id, assigned_users) ==
    {[task_id |-> task_id, user_id |-> u] : u \in assigned_users \ {Root}}

\* assignments = data.assigned_users.map(userId => ({ task_id, user_id }))
Assignments(task_id, assigned_users) ==
    {[task_id |-> task_id, user_id |-> u] : u \in assigned_users}

\* task_assignments insert: refused by the policy, by UNIQUE(task_id, user_id)
\* or by an error of the request.
AssignmentsInsertable(uid, task_id, users) ==
    /\ TaskAssignmentsWrite(uid)
    /\ \A ta \in task_assignments :
          ~(ta.task_id = task_id /\ ta.user_id \in users)

\* lines 196-211
EditInsert(ok) ==
    /\ form.pc = "edit_insert"
    /\ IF ok /\ AssignmentsInsertable(form.uid, form.task, form.assigned_users)
       THEN /\ task_assignments' = task_assignments \cup
                  Assignments(form.task, form.assigned_users)
            /\ form' = [form EXCEPT
                           !.pc = IF form.newUserIds # {}
                                  THEN "edit_notify" ELSE "idle",
                           !.toast = IF form.newUserIds # {}
                                     THEN "none" ELSE "success"]
       ELSE /\ task_assignments' = task_assignments
            /\ form' = [Failed EXCEPT
                           !.stopped = StoredAssignees(form.task) = {}]
    /\ auth_uid' = form.uid
    /\ UNCHANGED <<tasks, notifications, formFrame>>

\* line 210
EditNotify(ok) ==
    /\ form.pc = "edit_notify"
    /\ createTaskAssignmentNotifications(form.task, form.newUserIds, ok)
    /\ auth_uid' = form.uid
    /\ UNCHANGED <<tasks, task_assignments, formFrame>>

\* lines 219-237
CreateTask(ok) ==
    /\ form.pc = "create_task"
    /\ \E id \in Tasks :
          /\ id \notin {r.id : r \in tasks}
          /\ IF ok /\ TasksWrite(form.uid)
             THEN /\ tasks' = tasks \cup
                        {[id |-> id, project_id |-> form.project_id,
                          created_by |-> form.uid, status |-> "todo"]}
                  /\ form' = [form EXCEPT
                                 !.newTask = id,
                                 !.pc = IF form.assigned_users # {}
                                        THEN "create_insert" ELSE "idle",
                                 !.toast = IF form.assigned_users # {}
                                           THEN "none" ELSE "success"]
             ELSE /\ tasks' = tasks
                  /\ form' = Failed
    /\ auth_uid' = form.uid
    /\ UNCHANGED <<task_assignments, notifications, formFrame>>

\* lines 240-250
CreateInsert(ok) ==
    /\ form.pc = "create_insert"
    /\ IF ok /\ AssignmentsInsertable(form.uid, form.newTask,
                                       form.assigned_users)
       THEN /\ task_assignments' = task_assignments \cup
                  Assignments(form.newTask, form.assigned_users)
            /\ form' = [form EXCEPT !.pc = "create_notify"]
       ELSE /\ task_assignments' = task_assignments
            /\ form' = Failed
    /\ auth_uid' = form.uid
    /\ UNCHANGED <<tasks, notifications, formFrame>>

\* line 253
CreateNotify(ok) ==
    /\ form.pc = "create_notify"
    /\ createTaskAssignmentNotifications(form.newTask, form.assigned_users, ok)
    /\ auth_uid' = form.uid
    /\ UNCHANGED <<tasks, task_assignments, formFrame>>

\* Root's session with every user approved and one project.
InitTaskForm ==
    /\ schema = "checked"
    /\ auth_uid = Root
    /\ auth_users = Users
    /\ profiles = {RootProfile} \cup
          {[user_id |-> u, role |-> "developer", is_approved |-> TRUE,
            first_name |-> "n0"] : u \in Users \ {Root}}
    /\ projects = {[id |-> "p"]}
    /\ project_members = {}
    /\ tasks = {}
    /\ task_assignments = {}
    /\ subtasks = {}
    /\ messages = {}
    /\ notifications = <<>>
    /\ form = IdleForm
    /\ hook = [mounted |-> FALSE, notifications |-> <<>>, unreadCount |-> 0]
    /\ inflight = <<>>
    /\ channel = <<>>
    /\ PagesClosed

NextTaskForm ==
    \/ \E task \in Tasks \cup {NULL}, assigned_users \in SUBSET Users :
          Submit(Root, task, "p", assigned_users)
    \/ \E ok \in BOOLEAN : EditSelect(ok)
    \/ \E ok \in BOOLEAN : EditUpdate(ok)
    \/ \E ok \in BOOLEAN : EditDelete(ok)
    \/ \E ok \in BOOLEAN : EditInsert(ok)
    \/ \E ok \in BOOLEAN : EditNotify(ok)
    \/ \E ok \in BOOLEAN : CreateTask(ok)
    \/ \E ok \in BOOLEAN : CreateInsert(ok)
    \/ \E ok \in BOOLEAN : CreateNotify(ok)

SpecTaskForm == InitTaskForm /\ [][NextTaskForm]_vars

\* The page is closed or reloaded while handleSubmit awaits a response: the
\* requests already executed stay executed, nothing more is sent.
Crash ==
    /\ form.pc # "idle"
    /\ form' = [form EXCEPT
                   !.pc = "idle", !.toast = "none", !.failed = TRUE,
                   !.stopped = /\ form.pc = "edit_insert"
                               /\ StoredAssignees(form.task) = {}]
    /\ UNCHANGED <<auth_uid, tasks, task_assignments, notifications, formFrame>>

NextTaskEdit == NextTaskForm \/ Crash

SpecTaskEdit == InitTaskForm /\ [][NextTaskEdit]_vars

----------------------------------------------------------------------------
(* useNotifications: the hook of the session of HookUser.  A request of    *)
(* the hook is split in two steps: the call, at which the backend executes *)
(* it, and the return, at which the code after the await runs.  Realtime   *)
(* events are delivered one by one, in order.                              *)

HookUser == Root

NotificationsLimit == 50

MaxInflight == 2

MaxChannel == 2

Unmounted ==
    [mounted |-> FALSE, notifications |-> <<>>, unreadCount |-> 0]

Request(op, ok) ==
    [op |-> op, ok |-> ok, id |-> 0, data |-> <<>>, wasUnread |-> FALSE,
     already |-> FALSE]

Remove(s, i) == SubSeq(s, 1, i - 1) \o SubSeq(s, i + 1, Len(s))

Ids(rows) == {rows[i].id : i \in 1..Len(rows)}

Unread(rows) == {i \in 1..Len(rows) : ~rows[i].read}

Reverse(s) == [i \in 1..Len(s) |-> s[Len(s) + 1 - i]]

Min(x, y) == IF x <= y THEN x ELSE y

Max(x, y) == IF x >= y THEN x ELSE y

\* the ids some part of the state still refers to
ReferencedIds ==
    UNION ({NotificationIds, Ids(hook.notifications),
            {channel[i].row.id : i \in 1..Len(channel)},
            {inflight[i].id : i \in 1..Len(inflight)}}
           \cup {Ids(inflight[i].data) : i \in 1..Len(inflight)})

\* postgres_changes with filter user_id=eq.<profile.user_id>
Published(events) ==
    IF hook.mounted
    THEN channel \o SelectSeq(events, LAMBDA ev : ev.row.user_id = HookUser)
    ELSE channel

\* select * where user_id = uid order by created_at desc limit 50
FetchResult(uid) ==
    LET own == SelectSeq(notifications, LAMBDA n : n.user_id = uid)
    IN SubSeq(Reverse(own), 1, Min(NotificationsLimit, Len(own)))

\* update notifications set read = true where read = false
MarkedAllReadEveryUser(uid) ==
    [i \in 1..Len(notifications) |->
        [notifications[i] EXCEPT !.read = TRUE]]

\* update notifications set read = true where user_id = uid and read = false
MarkedAllRead(uid) ==
    [i \in 1..Len(notifications) |->
        IF notifications[i].user_id = uid /\ ~notifications[i].read
        THEN [notifications[i] EXCEPT !.read = TRUE]
        ELSE notifications[i]]

\* update notifications set read = true where id = id
MarkedRead(id) ==
    [i \in 1..Len(notifications) |->
        IF notifications[i].id = id
        THEN [notifications[i] EXCEPT !.read = TRUE]
        ELSE notifications[i]]

hookFrame == <<schema, auth_users, profiles, accessVars, formVars>>

\* Whether the ids k .. k + n - 1 are all in the set free.
FreeBlock(k, n, free) == \A m \in k..(k + n - 1) : m \in free

\* The batch insert of createTaskAssignmentNotifications, issued by the
\* TaskForm of some session, as the backend and the feed see it; max is the
\* number of notification ids in use at one time.
NotifyAssigneesUpTo(taskId, assignedUserIds, max) ==
    /\ assignedUserIds # {}
    /\ Len(channel) + Cardinality(assignedUserIds) <= MaxChannel
    /\ LET n == Cardinality(assignedUserIds)
           used == ReferencedIds
           free == {k \in 1..max : k \notin used}
           firsts == {k \in free : FreeBlock(k, n, free)}
           firstId == CHOOSE k \in firsts : \A m \in firsts : k <= m
           rows == AssignmentNotifications(taskId, AsList(assignedUserIds),
                                           firstId)
       IN /\ firsts # {}
          /\ notifications' = notifications \o rows
          /\ channel' = Published([i \in 1..Len(rows) |->
                                      [type |-> "INSERT", row |-> rows[i]]])
    /\ UNCHANGED <<auth_uid, hook, inflight, hookFrame>>

NotifyAssignees(taskId, assignedUserIds) ==
    NotifyAssigneesUpTo(taskId, assignedUserIds, MaxNotifications)

\* The component that uses the hook is mounted: the state starts empty, the
\* effect calls fetchNotifications and subscribes to the channel.  Responses
\* and events of an earlier mount are not handled any more.
Mount(ok) ==
    /\ HookUser \in {r.user_id : r \in profiles}
    /\ hook' = [Unmounted EXCEPT !.mounted = TRUE]
    /\ channel' = <<>>
    /\ inflight' = <<[Request("fetch", ok) EXCEPT
                         !.data = IF ok THEN FetchResult(HookUser) ELSE <<>>]>>
    /\ auth_uid' = HookUser
    /\ UNCHANGED <<notifications, hookFrame>>

\* fetchNotifications, lines 44-51
fetchNotificationsReturn(i) ==
    /\ i \in 1..Len(inflight)
    /\ inflight[i].op = "fetch"
    /\ IF inflight[i].ok
       THEN hook' = [hook EXCEPT
                        !.notifications = inflight[i].data,
                        !.unreadCount = Cardinality(Unread(inflight[i].data))]
       ELSE hook' = hook
    /\ inflight' = Remove(inflight, i)
    /\ UNCHANGED <<auth_uid, notifications, channel, hookFrame>>

\* markAsRead, lines 62-65; the button is shown for an unread notification.
markAsReadCall(notificationId, ok) ==
    /\ hook.mounted
    /\ \E i \in 1..Len(hook.notifications) :
          /\ hook.notifications[i].id = notificationId
          /\ ~hook.notifications[i].read
    /\ Len(inflight) < MaxInflight
    /\ Len(channel) < MaxChannel
    /\ LET hit == {i \in 1..Len(notifications) :
                      notifications[i].id = notificationId}
       IN /\ notifications' = IF ok THEN MarkedRead(notificationId)
                              ELSE notifications
          /\ channel' =
                IF ok
                THEN Published(SelectSeq(
                        [i \in 1..Len(notifications) |->
                            [type |-> "UPDATE",
                             row |-> MarkedRead(notificationId)[i]]],
                        LAMBDA ev : ev.row.id = notificationId))
                ELSE channel
          /\ inflight' = Append(inflight,
                [Request("markAsRead", ok) EXCEPT
                    !.id = notificationId,
                    !.already = \E i \in hit : notifications[i].read])
    /\ auth_uid' = HookUser
    /\ UNCHANGED <<hook, hookFrame>>

\* markAsRead, lines 67-72
markAsReadReturn(i) ==
    /\ i \in 1..Len(inflight)
    /\ inflight[i].op = "markAsRead"
    /\ IF inflight[i].ok
       THEN hook' = [hook EXCEPT
                        !.notifications =
                            [k \in 1..Len(hook.notifications) |->
                                IF hook.notifications[k].id = inflight[i].id
                                THEN [hook.notifications[k] EXCEPT
                                         !.read = TRUE]
                                ELSE hook.notifications[k]],
                        !.unreadCount = Max(0, hook.unreadCount - 1)]
       ELSE hook' = hook
    /\ inflight' = Remove(inflight, i)
    /\ UNCHANGED <<auth_uid, notifications, channel, hookFrame>>

\* markAllAsRead, lines 80-87; the button is shown while unreadCount > 0.
markAllAsReadCall(ok) ==
    /\ hook.mounted
    /\ hook.unreadCount > 0
    /\ Len(inflight) < MaxInflight
    /\ Len(channel) + Len(notifications) <= MaxChannel
    /\ notifications' = IF ok THEN MarkedAllRead(HookUser) ELSE notifications
    /\ channel' =
          IF ok
          THEN Published(SelectSeq(
                  [i \in 1..Len(notifications) |->
                      [type |-> "UPDATE", row |-> MarkedAllRead(HookUser)[i]]],
                  LAMBDA ev : \E i \in Unread(notifications) :
                                 notifications[i].id = ev.row.id))
          ELSE channel
    /\ inflight' = Append(inflight, Request("markAllAsRead", ok))
    /\ auth_uid' = HookUser
    /\ UNCHANGED <<hook, hookFrame>>

\* markAllAsRead, lines 89-94
markAllAsReadReturn(i) ==
    /\ i \in 1..Len(inflight)
    /\ inflight[i].op = "markAllAsRead"
    /\ IF inflight[i].ok
       THEN hook' = [hook EXCEPT
                        !.notifications =
                            [k \in 1..Len(hook.notifications) |->
                                [hook.notifications[k] EXCEPT !.read = TRUE]],
                        !.unreadCount = 0]
       ELSE hook' = hook
    /\ inflight' = Remove(inflight, i)
    /\ UNCHANGED <<auth_uid, notifications, channel, hookFrame>>

\* deleteNotification, lines 103-106 and 110: the notification looked up at
\* line 110 is the one of the list the callback was created with.
deleteNotificationCall(notificationId, ok) ==
    /\ hook.mounted
    /\ notificationId \in Ids(hook.notifications)
    /\ Len(inflight) < MaxInflight
    /\ Len(channel) < MaxChannel
    /\ notifications' =
          IF ok
          THEN SelectSeq(notifications, LAMBDA n : n.id # notificationId)
          ELSE notifications
    /\ channel' =
          IF ok
          THEN Published(SelectSeq(
                  [i \in 1..Len(notifications) |->
                      [type |-> "DELETE", row |-> notifications[i]]],
                  LAMBDA ev : ev.row.id = notificationId))
          ELSE channel
    /\ inflight' = Append(inflight,
          [Request("deleteNotification", ok) EXCEPT
              !.id = notificationId,
              !.wasUnread = \E i \in Unread(hook.notifications) :
                               hook.notifications[i].id = notificationId])
    /\ auth_uid' = HookUser
    /\ UNCHANGED <<hook, hookFrame>>

\* deleteNotification, lines 108-114
deleteNotificationReturn(i) ==
    /\ i \in 1..Len(inflight)
    /\ inflight[i].op = "deleteNotification"
    /\ IF inflight[i].ok
       THEN hook' = [hook EXCEPT
                        !.notifications =
                            SelectSeq(hook.notifications,
                                      LAMBDA n : n.id # inflight[i].id),
                        !.unreadCount =
                            IF inflight[i].wasUnread
                            THEN Max(0, hook.unreadCount - 1)
                            ELSE hook.unreadCount]
       ELSE hook' = hook
    /\ inflight' = Remove(inflight, i)
    /\ UNCHANGED <<auth_uid, notifications, channel, hookFrame>>

\* the INSERT handler, lines 136-147
OnInsert(newNotification) ==
    [hook EXCEPT !.notifications = <<newNotification>> \o hook.notifications,
                 !.unreadCount = hook.unreadCount + 1]

\* the UPDATE handler, lines 157-162
OnUpdate(updatedNotification) ==
    [hook EXCEPT !.notifications =
                     [k \in 1..Len(hook.notifications) |->
                         IF hook.notifications[k].id = updatedNotification.id
                         THEN updatedNotification
                         ELSE hook.notifications[k]]]

\* the DELETE handler, lines 172-178
OnDelete(deletedNotification) ==
    [hook EXCEPT !.notifications =
                     SelectSeq(hook.notifications,
                               LAMBDA n : n.id # deletedNotification.id),
                 !.unreadCount = IF ~deletedNotification.read
                                 THEN Max(0, hook.unreadCount - 1)
                                 ELSE hook.unreadCount]

\* The first undelivered event reaches its handler.
Deliver ==
    /\ channel # <<>>
    /\ hook' = CASE Head(channel).type = "INSERT" -> OnInsert(Head(channel).row)
                 [] Head(channel).type = "UPDATE" -> OnUpdate(Head(channel).row)
                 [] Head(channel).type = "DELETE" -> OnDelete(Head(channel).row)
    /\ channel' = Tail(channel)
    /\ UNCHANGED <<auth_uid, notifications, inflight, hookFrame>>

InitNotif == Init /\ schema = "checked"

NextNotif ==
    \/ \E assignedUserIds \in SUBSET {HookUser, "b"} :
          NotifyAssignees("t", assignedUserIds)
    \/ \E ok \in BOOLEAN : Mount(ok)
    \/ \E i \in 1..MaxInflight : fetchNotificationsReturn(i)
    \/ \E id \in 1..MaxNotifications, ok \in BOOLEAN : markAsReadCall(id, ok)
    \/ \E i \in 1..MaxInflight : markAsReadReturn(i)
    \/ \E ok \in BOOLEAN : markAllAsReadCall(ok)
    \/ \E i \in 1..MaxInflight : markAllAsReadReturn(i)
    \/ \E id \in 1..MaxNotifications, ok \in BOOLEAN :
          deleteNotificationCall(id, ok)
    \/ \E i \in 1..MaxInflight : deleteNotificationReturn(i)
    \/ Deliver

SpecNotif == InitNotif /\ [][NextNotif]_vars

----------------------------------------------------------------------------
(* The feed of the hook alone, for a user who has between MinFeed and 50   *)
(* notifications stored: further notifications arrive, the hook is mounted *)
(* and fetches, events are delivered.  MaxFeed lets the feed grow past the *)
(* limit of the fetch.                                                     *)

MinFeed == 47

MaxFeed == 52

StoredFeed(n) ==
    [i \in 1..n |->
        [id |-> i, user_id |-> HookUser, read |-> FALSE, related_id |-> "t"]]

InitFeed ==
    /\ schema = "checked"
    /\ auth_uid = Root
    /\ auth_users = {Root}
    /\ profiles = {RootProfile}
    /\ projects = {}
    /\ project_members = {}
    /\ tasks = {}
    /\ task_assignments = {}
    /\ subtasks = {}
    /\ messages = {}
    /\ notifications \in {StoredFeed(n) : n \in MinFeed..NotificationsLimit}
    /\ form = IdleForm
    /\ hook = Unmounted
    /\ inflight = <<>>
    /\ channel = <<>>
    /\ PagesClosed

NextFeed ==
    \/ NotifyAssigneesUpTo("t", {HookUser}, MaxFeed)
    \/ \E ok \in BOOLEAN : Mount(ok)
    \/ fetchNotificationsReturn(1)
    \/ Deliver

SpecFeed == InitFeed /\ [][NextFeed]_vars

----------------------------------------------------------------------------
(* TaskDetails: the subtasks of a task.  The view is opened by one session *)
(* at a time; a request is split at its await, as for the hook, and waits  *)
(* in details.pending.  details.events counts the realtime events of the   *)
(* subtasks channel that have not reached the view.  details.pair records  *)
(* the last toggles called one after the other on one subtask.             *)

OtherTask == "u"

\* policy "Users can update subtasks they created or are assigned to": the
\* unqualified task_id of the subquery is a column of task_assignments, the
\* innermost table that has one, so the condition reads ta.task_id =
\* ta.task_id.
UsersCanUpdateSubtasks(uid, row) ==
    \/ row.created_by = uid
    \/ \E ta \in task_assignments :
          /\ \E t \in tasks : t.id = ta.task_id
          /\ ta.task_id = ta.task_id
          /\ ta.user_id = uid

\* UPDATE policies of subtasks; the rows of an update with a WHERE clause
\* also have to pass the SELECT policies.
SubtasksUpdate(uid, row) ==
    /\ SubtasksSelect(uid, row)
    /\ UsersCanUpdateSubtasks(uid, row) \/ is_admin(uid)

\* update subtasks set is_completed = v where id = id, as uid
UpdatedSubtasks(uid, id, v) ==
    {IF r.id = id /\ SubtasksUpdate(uid, r)
     THEN [r EXCEPT !.is_completed = v] ELSE r : r \in subtasks}

\* select * from subtasks where task_id = task, as uid
FetchedSubtasks(uid, task) ==
    {r \in SelectSubtasks(uid) : r.task_id = task}

DetailsRequest(op, ok) ==
    [op |-> op, ok |-> ok, id |-> NULL, isCompleted |-> FALSE, data |-> {},
     text |-> "", file |-> NULL]

detailsFrame == <<schema, auth_users, profiles, projects, project_members,
                  tasks, task_assignments, messages, notifications, form,
                  hookVars, board, route, team, peer, projectForm>>

\* TaskDetails is mounted for a task of the session's task list: the effect
\* calls fetchSubtasks and subscribes.
OpenTaskDetails(uid, task, ok) ==
    /\ uid \in auth_users
    /\ task \in {r.id : r \in SelectTasks(uid)}
    /\ details' = [ClosedDetails EXCEPT
                      !.open = TRUE, !.uid = uid, !.task = task,
                      !.pending =
                         <<[DetailsRequest("fetchSubtasks", ok) EXCEPT
                               !.data = IF ok THEN FetchedSubtasks(uid, task)
                                        ELSE {}]>>]
    /\ auth_uid' = uid
    /\ UNCHANGED <<subtasks, detailsFrame>>

\* An event of the subtasks channel reaches the view: () => fetchSubtasks()
SubtasksChanged(ok) ==
    /\ details.open
    /\ details.events > 0
    /\ Len(details.pending) < MaxInflight
    /\ details' = [details EXCEPT
                      !.events = details.events - 1,
                      !.pending = Append(details.pending,
                         [DetailsRequest("fetchSubtasks", ok) EXCEPT
                             !.data = IF ok
                                      THEN FetchedSubtasks(details.uid,
                                                           details.task)
                                      ELSE {}])]
    /\ auth_uid' = details.uid
    /\ UNCHANGED <<subtasks, detailsFrame>>

\* fetchSubtasks after the await
fetchSubtasksReturn(i) ==
    /\ i \in 1..Len(details.pending)
    /\ details.pending[i].op = "fetchSubtasks"
    /\ details' = [details EXCEPT
                      !.subtasks = IF details.pending[i].ok
                                   THEN details.pending[i].data
                                   ELSE details.subtasks,
                      !.pair = <<>>,
                      !.pending = Remove(details.pending, i)]
    /\ UNCHANGED <<auth_uid, subtasks, detailsFrame>>

\* toggleSubtask(subtask.id, subtask.is_completed) up to the await: the
\* checkbox of a held subtask is clicked.
toggleSubtaskCall(subtaskId, ok) ==
    /\ details.open
    /\ Len(details.pending) < MaxInflight
    /\ details.events < MaxChannel
    /\ \E row \in details.subtasks :
          /\ row.id = subtaskId
          /\ LET isCompleted == row.is_completed
                 updated == IF ok
                            THEN UpdatedSubtasks(details.uid, subtaskId,
                                                 ~isCompleted)
                            ELSE subtasks
                 stored == {r \in subtasks : r.id = subtaskId}
                 entry == [id |-> subtaskId, ok |-> ok, local |-> isCompleted,
                           stored |-> {r.is_completed : r \in stored}]
             IN /\ subtasks' = updated
                /\ details' = [details EXCEPT
                      !.events = IF \E r \in stored :
                                       ok /\ SubtasksUpdate(details.uid, r)
                                 THEN details.events + 1 ELSE details.events,
                      !.pending = Append(details.pending,
                         [DetailsRequest("toggleSubtask", ok) EXCEPT
                             !.id = subtaskId, !.isCompleted = isCompleted]),
                      !.pair = IF /\ Len(details.pair) = 1
                                  /\ details.pair[1].id = subtaskId
                               THEN Append(details.pair, entry)
                               ELSE IF details.pending = <<>>
                                    THEN <<entry>> ELSE <<>>]
    /\ auth_uid' = details.uid
    /\ UNCHANGED detailsFrame

\* toggleSubtask after the await
toggleSubtaskReturn(i) ==
    /\ i \in 1..Len(details.pending)
    /\ details.pending[i].op = "toggleSubtask"
    /\ details' = [details EXCEPT
                      !.subtasks =
                         IF details.pending[i].ok
                         THEN {IF r.id = details.pending[i].id
                               THEN [r EXCEPT !.is_completed =
                                        ~details.pending[i].isCompleted]
                               ELSE r : r \in details.subtasks}
                         ELSE details.subtasks,
                      !.pending = Remove(details.pending, i)]
    /\ UNCHANGED <<auth_uid, subtasks, detailsFrame>>

\* One project with two tasks and one subtask of the first task; b and c
\* are approved developers, members of the project or not, assigned to the
\* tasks or not.
InitSubtasks ==
    /\ schema = "checked"
    /\ auth_uid = Root
    /\ auth_users = Users
    /\ profiles = {RootProfile} \cup
          {[user_id |-> u, role |-> "developer", is_approved |-> TRUE,
            first_name |-> "n0"] : u \in Users \ {Root}}
    /\ projects = {[id |-> "p"]}
    /\ project_members \in
          SUBSET {[project_id |-> "p", user_id |-> u] : u \in Users \ {Root}}
    /\ tasks = {[id |-> k, project_id |-> "p", created_by |-> Root,
                 status |-> "todo"] : k \in {"t", OtherTask}}
    /\ task_assignments \in
          SUBSET {[task_id |-> k, user_id |-> u] :
                     k \in {"t", OtherTask}, u \in Users \ {Root}}
    /\ \E creator \in {Root, "c"} :
          subtasks = {[id |-> "s", task_id |-> "t", created_by |-> creator,
                       is_completed |-> FALSE]}
    /\ messages = {}
    /\ notifications = <<>>
    /\ form = IdleForm
    /\ hook = Unmounted
    /\ inflight = <<>>
    /\ channel = <<>>
    /\ PagesClosed

NextSubtasks ==
    \/ \E uid \in Users, ok \in BOOLEAN : OpenTaskDetails(uid, "t", ok)
    \/ \E ok \in BOOLEAN : SubtasksChanged(ok)
    \/ \E i \in 1..MaxInflight : fetchSubtasksReturn(i)
    \/ \E ok \in BOOLEAN : toggleSubtaskCall("s", ok)
    \/ \E i \in 1..MaxInflight : toggleSubtaskReturn(i)

SpecSubtasks == InitSubtasks /\ [][NextSubtasks]_vars

----------------------------------------------------------------------------
(* Task status: the backend write and the board of the Tasks page.  The    *)
(* droppable elements of the board are the task cards (useSortable with    *)
(* id task.id); the columns register no droppable, so over.id of a drag    *)
(* end is the id of a card.                                                *)

TaskStatuses ==
    {"todo", "in_progress", "review", "to_modify", "completed", "cancelled"}

\* policies of tasks applied to an UPDATE with a WHERE clause
TasksUpdate(uid, row) == TasksSelect(uid, row) /\ TasksWrite(uid)

\* update tasks set status = status where id = taskId, as uid
UpdatedTaskStatus(uid, taskId, status) ==
    {IF r.id = taskId /\ TasksUpdate(uid, r)
     THEN [r EXCEPT !.status = status] ELSE r : r \in tasks}

\* status is of type task_status: any other value is an error of the request
StatusAccepted(status) == status \in TaskStatuses

\* supabase.from('tasks').update({ status }).eq('id', taskId), sent by the
\* session of uid
UpdateTaskStatus(uid, taskId, status) ==
    /\ uid \in auth_users
    /\ taskId \in {r.id : r \in tasks}
    /\ tasks' = IF StatusAccepted(status)
                THEN UpdatedTaskStatus(uid, taskId, status)
                ELSE tasks
    /\ auth_uid' = uid
    /\ UNCHANGED <<schema, auth_users, profiles, projects, project_members,
                   task_assignments, subtasks, messages, notifications,
                   formVars, hookVars>>

\* select *, projects!inner(name) from tasks, as uid
FetchedTasks(uid) ==
    {r \in SelectTasks(uid) :
        \E p \in SelectProjects(uid) : p.id = r.project_id}

BoardRequest(op, ok) == [op |-> op, ok |-> ok, data |-> {}]

FetchTasksRequest(uid, ok) ==
    [BoardRequest("fetchTasks", ok) EXCEPT
        !.data = IF ok THEN FetchedTasks(uid) ELSE {}]

\* tasksByStatus: the tasks of the six columns, which are the cards shown
Cards == {r \in board.tasks : r.status \in TaskStatuses}

boardFrame == <<schema, auth_users, profiles, projects, project_members,
                task_assignments, subtasks, messages, notifications, form,
                hookVars, details, route, team, peer, projectForm>>

\* The Tasks page is mounted: the effect calls fetchTasks.
OpenBoard(uid, ok) ==
    /\ uid \in auth_users
    /\ board' = [ClosedBoard EXCEPT
                    !.open = TRUE, !.uid = uid,
                    !.pending = <<FetchTasksRequest(uid, ok)>>]
    /\ auth_uid' = uid
    /\ UNCHANGED <<tasks, boardFrame>>

\* fetchTasks after the await
fetchTasksReturn(i) ==
    /\ i \in 1..Len(board.pending)
    /\ board.pending[i].op = "fetchTasks"
    /\ board' = [board EXCEPT
                    !.tasks = IF board.pending[i].ok
                              THEN board.pending[i].data ELSE board.tasks,
                    !.pending = Remove(board.pending, i)]
    /\ UNCHANGED <<auth_uid, tasks, boardFrame>>

\* handleDragEnd up to the await: the card taskId is dropped over the card
\* overId; the local list is written first.
handleDragEndCall(taskId, overId, ok) ==
    /\ board.open
    /\ Len(board.pending) < MaxInflight
    /\ taskId \in {r.id : r \in Cards}
    /\ overId \in {r.id : r \in Cards}
    /\ LET newStatus == overId
       IN /\ tasks' = IF ok /\ StatusAccepted(newStatus)
                      THEN UpdatedTaskStatus(board.uid, taskId, newStatus)
                      ELSE tasks
          /\ board' = [board EXCEPT
                !.tasks = {IF r.id = taskId
                           THEN [r EXCEPT !.status = newStatus] ELSE r :
                              r \in board.tasks},
                !.pending = Append(board.pending,
                   BoardRequest("updateStatus",
                                ok /\ StatusAccepted(newStatus)))]
    /\ auth_uid' = board.uid
    /\ UNCHANGED boardFrame

NoRevert(uid, fetchOk) == <<>>

\* handleDragEnd, error branch: fetchTasks()
Revert(uid, fetchOk) == <<FetchTasksRequest(uid, fetchOk)>>

\* handleDragEnd after the await
handleDragEndReturn(i, fetchOk) ==
    /\ i \in 1..Len(board.pending)
    /\ board.pending[i].op = "updateStatus"
    /\ board' = [board EXCEPT
                    !.pending =
                       Remove(board.pending, i) \o
                       (IF board.pending[i].ok THEN <<>>
                        ELSE Revert(board.uid, fetchOk))]
    /\ auth_uid' = IF board.pending[i].ok THEN auth_uid ELSE board.uid
    /\ UNCHANGED <<tasks, boardFrame>>

\* One project with two tasks; b is a developer, approved or not, member of
\* the project or not; c is an approved developer outside the project.
InitBoard ==
    /\ schema = "checked"
    /\ auth_uid = Root
    /\ auth_users = Users
    /\ \E approved \in BOOLEAN :
          profiles = {RootProfile,
                      [user_id |-> "b", role |-> "developer",
                       is_approved |-> approved, first_name |-> "n0"],
                      [user_id |-> "c", role |-> "developer",
                       is_approved |-> TRUE, first_name |-> "n0"]}
    /\ projects = {[id |-> "p"]}
    /\ project_members \in SUBSET {[project_id |-> "p", user_id |-> "b"]}
    /\ tasks = {[id |-> k, project_id |-> "p", created_by |-> Root,
                 status |-> "todo"] : k \in {"t", OtherTask}}
    /\ task_assignments \in SUBSET {[task_id |-> "t", user_id |-> "b"]}
    /\ subtasks = {}
    /\ messages = {}
    /\ notifications = <<>>
    /\ form = IdleForm
    /\ hook = Unmounted
    /\ inflight = <<>>
    /\ channel = <<>>
    /\ PagesClosed

NextTaskStatus ==
    \E uid \in Users, taskId \in {"t", OtherTask}, status \in TaskStatuses :
        UpdateTaskStatus(uid, taskId, status)

SpecTaskStatus == InitBoard /\ [][NextTaskStatus]_vars

NextBoard ==
    \/ \E uid \in Users, ok \in BOOLEAN : OpenBoard(uid, ok)
    \/ \E i \in 1..MaxInflight : fetchTasksReturn(i)
    \/ \E taskId, overId \in {"t", OtherTask}, ok \in BOOLEAN :
          handleDragEndCall(taskId, overId, ok)
    \/ \E i \in 1..MaxInflight, fetchOk \in BOOLEAN :
          handleDragEndReturn(i, fetchOk)

SpecBoard == InitBoard /\ [][NextBoard]_vars

\* The board when every response arrives and fetchTasks does not fail.
NextBoardLive ==
    \/ \E uid \in Users : OpenBoard(uid, TRUE)
    \/ \E i \in 1..MaxInflight : fetchTasksReturn(i)
    \/ \E taskId, overId \in {"t", OtherTask}, ok \in BOOLEAN :
          handleDragEndCall(taskId, overId, ok)
    \/ \E i \in 1..MaxInflight : handleDragEndReturn(i, TRUE)

SpecBoardLive ==
    /\ InitBoard
    /\ [][NextBoardLive]_vars
    /\ \A i \in 1..MaxInflight :
          /\ WF_vars(fetchTasksReturn(i))
          /\ WF_vars(handleDragEndReturn(i, TRUE))

----------------------------------------------------------------------------
(* is_leader of project_members and task_assignments                       *)

\* ProjectForm.handleSubmit, the members of the project: is_leader is
\* data.leaders.includes(userId)
MembersData(project_id, members, leaders) ==
    {[project_id |-> project_id, user_id |-> m, is_leader |-> m \in leaders] :
        m \in members}

\* supabase.from('project_members').insert(membersData)
InsertProjectMembers(uid, project_id, members, leaders) ==
    /\ uid \in auth_users
    /\ members # {}
    /\ leaders \subseteq members
    /\ project_members' =
          IF /\ ProjectMembersWrite(uid)
             /\ \A pm \in project_members :
                   pm.project_id = project_id => pm.user_id \notin members
          THEN project_members \cup MembersData(project_id, members, leaders)
          ELSE project_members
    /\ auth_uid' = uid
    /\ UNCHANGED <<schema, auth_users, profiles, projects, tasks,
                   task_assignments, subtasks, messages, notifications,
                   formVars, hookVars>>

\* update project_members set is_leader = v
\*   where project_id = project_id and user_id = user_id, as uid
UpdateProjectMemberLeader(uid, project_id, user_id, v) ==
    /\ uid \in auth_users
    /\ project_members' =
          {IF /\ r.project_id = project_id /\ r.user_id = user_id
              /\ ProjectMembersSelect(uid, r) /\ ProjectMembersWrite(uid)
           THEN [r EXCEPT !.is_leader = v] ELSE r : r \in project_members}
    /\ auth_uid' = uid
    /\ UNCHANGED <<schema, auth_users, profiles, projects, tasks,
                   task_assignments, subtasks, messages, notifications,
                   formVars, hookVars>>

\* update task_assignments set is_leader = v
\*   where task_id = task_id and user_id = user_id, as uid
UpdateTaskAssignmentLeader(uid, task_id, user_id, v) ==
    /\ uid \in auth_users
    /\ task_assignments' =
          {IF /\ r.task_id = task_id /\ r.user_id = user_id
              /\ TaskAssignmentsSelect(uid, r) /\ TaskAssignmentsWrite(uid)
           THEN [r EXCEPT !.is_leader = v] ELSE r : r \in task_assignments}
    /\ auth_uid' = uid
    /\ UNCHANGED <<schema, auth_users, profiles, projects, project_members,
                   tasks, subtasks, messages, notifications, formVars,
                   hookVars>>

\* One project with a task, a subtask and a message; b and c are
\* developers, approved or not; b is a member of the project, assigned
\* to the task or not; nobody is a leader yet.
InitLeader ==
    /\ schema = "checked"
    /\ auth_uid = Root
    /\ auth_users = Users
    /\ \E approved \in [{"b", "c"} -> BOOLEAN] :
          profiles = {RootProfile} \cup
             {[user_id |-> u, role |-> "developer",
               is_approved |-> approved[u], first_name |-> "n0"] :
                 u \in {"b", "c"}}
    /\ projects = {[id |-> "p"]}
    /\ project_members = MembersData("p", {"b"}, {})
    /\ tasks = {[id |-> "t", project_id |-> "p", created_by |-> Root,
                 status |-> "todo"]}
    /\ \E assigned \in SUBSET {"b"} :
          task_assignments =
             {[task_id |-> "t", user_id |-> u, is_leader |-> FALSE] :
                 u \in assigned}
    /\ subtasks = {[id |-> "s", task_id |-> "t", created_by |-> "c",
                    is_completed |-> FALSE]}
    /\ messages = {[id |-> "m1", task_id |-> "t", project_id |-> NULL,
                    sender_id |-> Root]}
    /\ notifications = <<>>
    /\ form = IdleForm
    /\ hook = Unmounted
    /\ inflight = <<>>
    /\ channel = <<>>
    /\ PagesClosed

NextLeader ==
    \/ \E uid \in Users, members \in SUBSET {"b", "c"} :
          \E leaders \in SUBSET members :
             InsertProjectMembers(uid, "p", members, leaders)
    \/ \E uid \in Users, user_id \in {"b", "c"}, v \in BOOLEAN :
          UpdateProjectMemberLeader(uid, "p", user_id, v)
    \/ \E uid \in Users, user_id \in {"b", "c"}, v \in BOOLEAN :
          UpdateTaskAssignmentLeader(uid, "t", user_id, v)

SpecLeader == InitLeader /\ [][NextLeader]_vars

----------------------------------------------------------------------------
(* ProtectedRoute.  user, profile and loading are the values of useAuth.  *)

\* the profile of useAuth: null, written {}, or one profiles row
Profiles ==
    {{}} \cup {{r} : r \in [user_id : Users, role : Roles,
                            is_approved : BOOLEAN]}

\* profile?.is_approved
IsApproved(profile) == \E r \in profile : r.is_approved

\* profile?.role
ProfileRole(profile) == {r.role : r \in profile}

ProtectedRouteUserFirst(loading, user, profile, requireAdmin) ==
    IF user = NULL THEN "auth"
    ELSE IF loading THEN "spinner"
    ELSE IF ~IsApproved(profile) THEN "pending"
    ELSE IF requireAdmin /\ ProfileRole(profile) # {"admin"} THEN "dashboard"
    ELSE "children"

ProtectedRoute(loading, user, profile, requireAdmin) ==
    IF loading THEN "spinner"
    ELSE IF user = NULL THEN "auth"
    ELSE IF ~IsApproved(profile) THEN "pending"
    ELSE IF requireAdmin /\ ProfileRole(profile) # {"admin"} THEN "dashboard"
    ELSE "children"

Rendered(loading, user, profile, requireAdmin) ==
    [loading |-> loading, user |-> user, profile |-> profile,
     requireAdmin |-> requireAdmin,
     rendered |-> ProtectedRoute(loading, user, profile, requireAdmin)]

routeFrame == <<schema, auth_uid, auth_users, profiles, accessVars,
                notifications, form, hookVars, details, board, team, peer, projectForm>>

\* useAuth returns new values and the route is rendered again
Render(loading, user, profile) ==
    /\ route' = Rendered(loading, user, profile, route.requireAdmin)
    /\ route' # route
    /\ UNCHANGED routeFrame

\* The route is rendered for the first time, useAuth still loading.
InitRoute ==
    /\ schema = "checked"
    /\ auth_uid = Root
    /\ auth_users = Users
    /\ profiles = {RootProfile}
    /\ projects = {}
    /\ project_members = {}
    /\ tasks = {}
    /\ task_assignments = {}
    /\ subtasks = {}
    /\ messages = {}
    /\ notifications = <<>>
    /\ form = IdleForm
    /\ hook = Unmounted
    /\ inflight = <<>>
    /\ channel = <<>>
    /\ details = ClosedDetails
    /\ board = ClosedBoard
    /\ team = ClosedTeam
    /\ peer = IdlePeer
    /\ projectForm = ClosedProjectForm
    /\ \E requireAdmin \in BOOLEAN :
          route = Rendered(TRUE, NULL, {}, requireAdmin)

NextRoute ==
    \E loading \in BOOLEAN, user \in Users \cup {NULL}, profile \in Profiles :
        Render(loading, user, profile)

SpecRoute == InitRoute /\ [][NextRoute]_vars

----------------------------------------------------------------------------
(* Comments of TaskDetails: addMessage and uploadFile                      *)

MaxMessages == 2

Texts == {"", "hi"}

Files == {"f1"}

MessageIds == 1..MaxMessages

\* getPublicUrl(fileName) of the uploaded file
PublicUrl(file) == CASE file = "f1" -> "project-files/f1"

\* the row of the insert of addMessage
MessageRow(id, uid, task, text, fileUrl, fileName) ==
    [id |-> id, task_id |-> task, project_id |-> NULL, sender_id |-> uid,
     content |-> IF text = "" THEN "Fichier joint" ELSE text,
     file_url |-> fileUrl, file_name |-> fileName]

\* addMessage: fileName = fileToUpload.name
FileName(file) == file

\* select ... from messages where task_id = task, as uid
FetchedMessages(uid, task) ==
    {r \in SelectMessages(uid) : r.task_id = task}

FetchMessagesRequest(uid, task, ok) ==
    [DetailsRequest("fetchMessages", ok) EXCEPT
        !.data = IF ok THEN FetchedMessages(uid, task) ELSE {}]

\* supabase.from('messages').insert(row): whether it is stored
MessageStored(uid, row, ok) ==
    ok /\ row.id \in MessageIds /\ MessagesInsert(uid, row)

messagesFrame == <<schema, auth_users, profiles, projects, project_members,
                   tasks, task_assignments, subtasks, notifications, form,
                   hookVars, board, route, team, peer, projectForm>>

\* TaskDetails is mounted: the effect calls fetchMessages.
OpenComments(uid, task, ok) ==
    /\ uid \in auth_users
    /\ task \in {r.id : r \in SelectTasks(uid)}
    /\ details' = [ClosedDetails EXCEPT
                      !.open = TRUE, !.uid = uid, !.task = task,
                      !.pending = <<FetchMessagesRequest(uid, task, ok)>>]
    /\ auth_uid' = uid
    /\ UNCHANGED <<messages, messagesFrame>>

\* fetchMessages after the await
fetchMessagesReturn(i) ==
    /\ i \in 1..Len(details.pending)
    /\ details.pending[i].op = "fetchMessages"
    /\ details' = [details EXCEPT
                      !.messages = IF details.pending[i].ok
                                   THEN details.pending[i].data
                                   ELSE details.messages,
                      !.pending = Remove(details.pending, i)]
    /\ UNCHANGED <<auth_uid, messages, messagesFrame>>

\* onChange of the textarea
setNewMessage(text) ==
    /\ details.open
    /\ details' = [details EXCEPT !.newMessage = text]
    /\ details' # details
    /\ UNCHANGED <<auth_uid, messages, messagesFrame>>

\* onChange of the file input, and the button that removes the file
setFileToUpload(file) ==
    /\ details.open
    /\ details' = [details EXCEPT !.fileToUpload = file]
    /\ details' # details
    /\ UNCHANGED <<auth_uid, messages, messagesFrame>>

\* The id the backend gives the next message; beyond MaxMessages none is
\* stored.
NextMessageId == Cardinality(messages) + 1

\* the insert of addMessage and the request that awaits its response
InsertMessage(text, fileUrl, fileName, ok) ==
    LET row == MessageRow(NextMessageId, details.uid, details.task, text,
                          fileUrl, fileName)
        stored == MessageStored(details.uid, row, ok)
    IN /\ messages' = IF stored THEN messages \cup {row} ELSE messages
       /\ auth_uid' = details.uid
       /\ UNCHANGED messagesFrame

\* addMessage up to its first await: the upload when a file is chosen, the
\* insert otherwise.
addMessageCall(ok) ==
    /\ details.open
    /\ Len(details.pending) < MaxInflight
    /\ ~(details.newMessage = "" /\ details.fileToUpload = NULL)
    /\ IF details.fileToUpload # NULL
       THEN /\ details' = [details EXCEPT
                  !.pending = Append(details.pending,
                     [DetailsRequest("uploadFile", ok) EXCEPT
                         !.text = details.newMessage,
                         !.file = details.fileToUpload])]
            /\ UNCHANGED <<auth_uid, messages, messagesFrame>>
       ELSE /\ InsertMessage(details.newMessage, NULL, NULL, ok)
            /\ details' = [details EXCEPT
                  !.pending = Append(details.pending,
                     [DetailsRequest("addMessage", messages' # messages)
                         EXCEPT !.text = details.newMessage])]

\* uploadFile after the await and addMessage up to the await of the insert
uploadFileReturn(i, ok) ==
    /\ i \in 1..Len(details.pending)
    /\ details.pending[i].op = "uploadFile"
    /\ LET req == details.pending[i]
           fileUrl == IF req.ok THEN PublicUrl(req.file) ELSE NULL
           fileName == FileName(req.file)
       IN /\ InsertMessage(req.text, fileUrl, fileName, ok)
          /\ details' = [details EXCEPT
                !.pending = Append(Remove(details.pending, i),
                   [DetailsRequest("addMessage", messages' # messages)
                       EXCEPT !.text = req.text, !.file = req.file])]

\* addMessage after the await of the insert
addMessageReturn(i, ok) ==
    /\ i \in 1..Len(details.pending)
    /\ details.pending[i].op = "addMessage"
    /\ IF details.pending[i].ok
       THEN /\ details' = [details EXCEPT
                  !.newMessage = "",
                  !.fileToUpload = NULL,
                  !.pending = Append(Remove(details.pending, i),
                     FetchMessagesRequest(details.uid, details.task, ok))]
            /\ auth_uid' = details.uid
       ELSE /\ details' = [details EXCEPT
                  !.pending = Remove(details.pending, i)]
            /\ UNCHANGED auth_uid
    /\ UNCHANGED <<messages, messagesFrame>>

\* One project with a task; b is an approved developer, member of the
\* project or not.
InitMessages ==
    /\ schema = "checked"
    /\ auth_uid = Root
    /\ auth_users = Users
    /\ profiles = {RootProfile,
                   [user_id |-> "b", role |-> "developer",
                    is_approved |-> TRUE, first_name |-> "n0"]}
    /\ projects = {[id |-> "p"]}
    /\ project_members \in SUBSET {[project_id |-> "p", user_id |-> "b"]}
    /\ tasks = {[id |-> "t", project_id |-> "p", created_by |-> Root,
                 status |-> "todo"]}
    /\ task_assignments = {}
    /\ subtasks = {}
    /\ messages = {}
    /\ notifications = <<>>
    /\ form = IdleForm
    /\ hook = Unmounted
    /\ inflight = <<>>
    /\ channel = <<>>
    /\ PagesClosed

NextMessages ==
    \/ \E uid \in Users, ok \in BOOLEAN : OpenComments(uid, "t", ok)
    \/ \E i \in 1..MaxInflight : fetchMessagesReturn(i)
    \/ \E text \in Texts : setNewMessage(text)
    \/ \E file \in Files \cup {NULL} : setFileToUpload(file)
    \/ \E ok \in BOOLEAN : addMessageCall(ok)
    \/ \E i \in 1..MaxInflight, ok \in BOOLEAN : uploadFileReturn(i, ok)
    \/ \E i \in 1..MaxInflight, ok \in BOOLEAN : addMessageReturn(i, ok)

SpecMessages == InitMessages /\ [][NextMessages]_vars

----------------------------------------------------------------------------
(* Notifications that arrive while the first fetch of the hook is awaited: *)
(* the fetch does not fail, nothing is marked or deleted.                  *)

NextArrival ==
    \/ \E assignedUserIds \in SUBSET {HookUser, "b"} :
          NotifyAssignees("t", assignedUserIds)
    \/ Mount(TRUE)
    \/ \E i \in 1..MaxInflight : fetchNotificationsReturn(i)
    \/ Deliver

SpecArrival == InitNotif /\ [][NextArrival]_vars

----------------------------------------------------------------------------
(* Two sessions editing one task.                                          *)

\* The edit form of a second session: handleSubmit of the same component,
\* run by another admin in another browser.
peerFrame == <<schema, auth_users, profiles, projects, project_members,
               subtasks, messages, hookVars, details, board, route, team,
               projectForm>>

PeerSubmit(uid, task, assigned_users) ==
    /\ peer.pc = "idle"
    /\ uid \in auth_users
    /\ assigned_users \subseteq fetchUsers
    /\ task \in {r.id : r \in tasks}
    /\ peer' = [IdlePeer EXCEPT
                   !.pc = "edit_select", !.uid = uid, !.task = task,
                   !.assigned_users = assigned_users]
    /\ UNCHANGED <<auth_uid, tasks, task_assignments, notifications, form,
                   peerFrame>>

\* lines 165-171
PeerEditSelect(ok) ==
    /\ peer.pc = "edit_select"
    /\ LET currentAssignments ==
               IF ok
               THEN {r \in SelectTaskAssignments(peer.uid) :
                        r.task_id = peer.task}
               ELSE {}
           currentUserIds == {a.user_id : a \in currentAssignments}
       IN peer' = [peer EXCEPT
                      !.pc = "edit_update",
                      !.currentUserIds = currentUserIds,
                      !.newUserIds = NewUserIds(peer.assigned_users,
                                                currentUserIds),
                      !.failed = ~ok]
    /\ auth_uid' = peer.uid
    /\ UNCHANGED <<tasks, task_assignments, notifications, form, peerFrame>>

PeerFailed == [peer EXCEPT !.pc = "idle", !.toast = "error", !.failed = TRUE]

\* lines 174-186
PeerEditUpdate(ok) ==
    /\ peer.pc = "edit_update"
    /\ IF ok THEN peer' = [peer EXCEPT !.pc = "edit_delete"]
       ELSE peer' = PeerFailed
    /\ auth_uid' = peer.uid
    /\ UNCHANGED <<tasks, task_assignments, notifications, form, peerFrame>>

\* lines 190-193
PeerEditDelete(ok) ==
    /\ peer.pc = "edit_delete"
    /\ IF ok /\ TaskAssignmentsWrite(peer.uid)
       THEN task_assignments' =
               {r \in task_assignments : r.task_id # peer.task}
       ELSE task_assignments' = task_assignments
    /\ peer' = [peer EXCEPT
                   !.pc = IF peer.assigned_users = {}
                          THEN "idle" ELSE "edit_insert",
                   !.toast = IF peer.assigned_users = {}
                             THEN "success" ELSE "none",
                   !.failed = peer.failed \/ ~ok]
    /\ auth_uid' = peer.uid
    /\ UNCHANGED <<tasks, notifications, form, peerFrame>>

\* lines 196-208
PeerEditInsert(ok) ==
    /\ peer.pc = "edit_insert"
    /\ IF ok /\ AssignmentsInsertable(peer.uid, peer.task, peer.assigned_users)
       THEN /\ task_assignments' = task_assignments \cup
                  Assignments(peer.task, peer.assigned_users)
            /\ peer' = [peer EXCEPT
                           !.pc = IF peer.newUserIds # {}
                                  THEN "edit_notify" ELSE "idle",
                           !.toast = IF peer.newUserIds # {}
                                     THEN "none" ELSE "success"]
       ELSE /\ task_assignments' = task_assignments
            /\ peer' = PeerFailed
    /\ auth_uid' = peer.uid
    /\ UNCHANGED <<tasks, notifications, form, peerFrame>>

\* line 210
PeerEditNotify(ok) ==
    /\ peer.pc = "edit_notify"
    /\ LET rows == AssignmentNotifications(peer.task, AsList(peer.newUserIds),
                                           NextNotificationId)
       IN /\ notifications' = IF ok THEN notifications \o rows
                              ELSE notifications
          /\ peer' = [peer EXCEPT
                         !.pc = "idle", !.toast = "success",
                         !.failed = peer.failed \/ ~ok,
                         !.notified = IF ok
                                      THEN {rows[i].user_id : i \in 1..Len(rows)}
                                      ELSE {}]
    /\ auth_uid' = peer.uid
    /\ UNCHANGED <<tasks, task_assignments, form, peerFrame>>

\* The admins a and b; task t of project p is assigned to c.
InitConcurrentEdit ==
    /\ schema = "checked"
    /\ auth_uid = Root
    /\ auth_users = Users
    /\ profiles = {RootProfile,
                   [user_id |-> "b", role |-> "admin", is_approved |-> TRUE,
                    first_name |-> "n0"],
                   [user_id |-> "c", role |-> "developer",
                    is_approved |-> TRUE, first_name |-> "n0"]}
    /\ projects = {[id |-> "p"]}
    /\ project_members = {}
    /\ tasks = {[id |-> "t", project_id |-> "p", created_by |-> Root,
                 status |-> "todo"]}
    /\ task_assignments = {[task_id |-> "t", user_id |-> "c"]}
    /\ subtasks = {}
    /\ messages = {}
    /\ notifications = <<>>
    /\ form = IdleForm
    /\ hook = Unmounted
    /\ inflight = <<>>
    /\ channel = <<>>
    /\ PagesClosed

\* Each session submits one edit of t.
NextConcurrentEdit ==
    \/ \E assigned_users \in SUBSET Users :
          /\ form.toast = "none"
          /\ Submit(Root, "t", "p", assigned_users)
    \/ \E ok \in BOOLEAN : EditSelect(ok)
    \/ \E ok \in BOOLEAN : EditUpdate(ok)
    \/ \E ok \in BOOLEAN : EditDelete(ok)
    \/ \E ok \in BOOLEAN : EditInsert(ok)
    \/ \E ok \in BOOLEAN : EditNotify(ok)
    \/ \E assigned_users \in SUBSET Users :
          /\ peer.toast = "none"
          /\ PeerSubmit("b", "t", assigned_users)
    \/ \E ok \in BOOLEAN : PeerEditSelect(ok)
    \/ \E ok \in BOOLEAN : PeerEditUpdate(ok)
    \/ \E ok \in BOOLEAN : PeerEditDelete(ok)
    \/ \E ok \in BOOLEAN : PeerEditInsert(ok)
    \/ \E ok \in BOOLEAN : PeerEditNotify(ok)

SpecConcurrentEdit == InitConcurrentEdit /\ [][NextConcurrentEdit]_vars

----------------------------------------------------------------------------
(* The Team page, addSubtask of TaskDetails, and the specification of the  *)
(* handlers whose write can return an error.                               *)

\* select * from profiles, as uid
ProfilesSelect(uid, row) ==
    \/ row.is_approved
    \/ row.user_id = uid
    \/ AdminPolicy(uid)

\* delete from profiles: only the FOR ALL policy admits it
ProfilesDelete(uid, row) == AdminPolicy(uid)

fetchTeamMembers(uid) == {r \in profiles : ProfilesSelect(uid, r)}

\* update profiles set <patch> where user_id = target, as uid
UpdatedProfiles(uid, target, patch) ==
    LET rows == {r \in profiles :
                    r.user_id = target /\ ProfilesUpdateUsing(uid, r)}
    IN IF \A r \in rows : ProfilesUpdateCheck(uid, r, ApplyPatch(r, patch))
       THEN (profiles \ rows) \cup {ApplyPatch(r, patch) : r \in rows}
       ELSE profiles

\* a row that violates WITH CHECK makes the request return an error
ProfilesUpdateRefused(uid, target, patch) ==
    \E r \in profiles :
        /\ r.user_id = target
        /\ ProfilesUpdateUsing(uid, r)
        /\ ~ProfilesUpdateCheck(uid, r, ApplyPatch(r, patch))

\* writes of the Team page awaited at one time
MaxTeamPending == 1

TeamRequest(op, ok) ==
    [op |-> op, ok |-> ok, userId |-> NULL, approve |-> FALSE,
     newRole |-> NULL, data |-> {}]

teamFrame == <<schema, auth_users, accessVars, notifications, form, hookVars,
               details, board, route, peer, projectForm>>

\* The Team page is mounted: the effect calls fetchTeamMembers.
OpenTeam(uid, ok) ==
    /\ uid \in auth_users
    /\ team' = [ClosedTeam EXCEPT
                   !.open = TRUE, !.uid = uid,
                   !.pending = <<[TeamRequest("fetchTeamMembers", ok) EXCEPT
                                     !.data = IF ok THEN fetchTeamMembers(uid)
                                              ELSE {}]>>]
    /\ auth_uid' = uid
    /\ UNCHANGED <<profiles, teamFrame>>

\* fetchTeamMembers after the await
fetchTeamMembersReturn(i) ==
    /\ i \in 1..Len(team.pending)
    /\ team.pending[i].op = "fetchTeamMembers"
    /\ team' = [team EXCEPT
                   !.members = IF team.pending[i].ok
                               THEN team.pending[i].data ELSE team.members,
                   !.pending = Remove(team.pending, i)]
    /\ UNCHANGED <<auth_uid, profiles, teamFrame>>

\* a write of the Team page up to the await; the buttons are rendered for
\* an admin
TeamWrite(req, updated, refused) ==
    /\ team.open
    /\ isAdmin(team.uid)
    /\ Len(team.pending) < MaxTeamPending
    /\ req.userId \in {m.user_id : m \in team.members}
    /\ profiles' = IF req.ok /\ ~refused THEN updated ELSE profiles
    /\ team' = [team EXCEPT
                   !.pending = Append(team.pending,
                                      [req EXCEPT !.ok = req.ok /\ ~refused])]
    /\ auth_uid' = team.uid
    /\ UNCHANGED teamFrame

handleApprovalCall(userId, approve, ok) ==
    TeamWrite([TeamRequest("handleApproval", ok) EXCEPT
                  !.userId = userId, !.approve = approve],
              UpdatedProfiles(team.uid, userId, SetApproval(approve)),
              ProfilesUpdateRefused(team.uid, userId, SetApproval(approve)))

handleRoleChangeCall(userId, newRole, ok) ==
    TeamWrite([TeamRequest("handleRoleChange", ok) EXCEPT
                  !.userId = userId, !.newRole = newRole],
              UpdatedProfiles(team.uid, userId, SetRole(newRole)),
              ProfilesUpdateRefused(team.uid, userId, SetRole(newRole)))

\* the delete button is one of a member awaiting approval
handleDeleteUserCall(userId, ok) ==
    /\ \E m \in team.members : m.user_id = userId /\ ~m.is_approved
    /\ TeamWrite([TeamRequest("handleDeleteUser", ok) EXCEPT
                     !.userId = userId],
                 {r \in profiles :
                     ~(r.user_id = userId /\ ProfilesDelete(team.uid, r))},
                 FALSE)

MembersAfterWriteOptimistic(req) ==
    CASE req.op = "handleApproval" ->
            {IF m.user_id = req.userId
             THEN [m EXCEPT !.is_approved = req.approve] ELSE m :
                m \in team.members}
      [] req.op = "handleRoleChange" ->
            {IF m.user_id = req.userId
             THEN [m EXCEPT !.role = req.newRole] ELSE m : m \in team.members}
      [] req.op = "handleDeleteUser" ->
            {m \in team.members : m.user_id # req.userId}

\* the members list after the await of a write: if (error) throw error
\* comes before setMembers
MembersAfterWrite(req) ==
    IF req.ok THEN MembersAfterWriteOptimistic(req) ELSE team.members

teamWriteReturn(i, op) ==
    /\ i \in 1..Len(team.pending)
    /\ team.pending[i].op = op
    /\ team' = [team EXCEPT
                   !.members = MembersAfterWrite(team.pending[i]),
                   !.toast = IF team.pending[i].ok THEN "success" ELSE "error",
                   !.pending = Remove(team.pending, i)]
    /\ UNCHANGED <<auth_uid, profiles, teamFrame>>

handleApprovalReturn(i) == teamWriteReturn(i, "handleApproval")

handleRoleChangeReturn(i) == teamWriteReturn(i, "handleRoleChange")

handleDeleteUserReturn(i) == teamWriteReturn(i, "handleDeleteUser")

NewSubtask == "s2"

\* addSubtask up to the await: insert(...).select().single()
addSubtaskCall(ok) ==
    /\ details.open
    /\ Len(details.pending) < MaxInflight
    /\ details.events < MaxChannel
    /\ NewSubtask \notin {r.id : r \in subtasks}
    /\ LET row == [id |-> NewSubtask, task_id |-> details.task,
                   created_by |-> details.uid, is_completed |-> FALSE]
           stored == ok /\ SubtasksInsert(details.uid)
       IN /\ subtasks' = IF stored THEN subtasks \cup {row} ELSE subtasks
          /\ details' = [details EXCEPT
                !.events = IF stored THEN details.events + 1
                           ELSE details.events,
                !.pending = Append(details.pending,
                   [DetailsRequest("addSubtask", stored) EXCEPT
                       !.data = IF stored THEN {row} ELSE {}]),
                !.pair = <<>>]
    /\ auth_uid' = details.uid
    /\ UNCHANGED detailsFrame

\* addSubtask after the await
addSubtaskReturn(i) ==
    /\ i \in 1..Len(details.pending)
    /\ details.pending[i].op = "addSubtask"
    /\ details' = [details EXCEPT
                      !.subtasks = IF details.pending[i].ok
                                   THEN details.subtasks \cup
                                           details.pending[i].data
                                   ELSE details.subtasks,
                      !.pending = Remove(details.pending, i)]
    /\ UNCHANGED <<auth_uid, subtasks, detailsFrame>>

\* An admin, an approved developer assigned to the task of the project and
\* a developer awaiting approval; two unread notifications of the admin.
InitFailure ==
    /\ schema = "checked"
    /\ auth_uid = Root
    /\ auth_users = Users
    /\ profiles = {RootProfile,
                   [user_id |-> "b", role |-> "developer",
                    is_approved |-> TRUE, first_name |-> "n0"],
                   [user_id |-> "c", role |-> "developer",
                    is_approved |-> FALSE, first_name |-> "n0"]}
    /\ projects = {[id |-> "p"]}
    /\ project_members = {[project_id |-> "p", user_id |-> "b"]}
    /\ tasks = {[id |-> "t", project_id |-> "p", created_by |-> Root,
                 status |-> "todo"]}
    /\ task_assignments = {[task_id |-> "t", user_id |-> "b"]}
    /\ subtasks = {[id |-> "s", task_id |-> "t", created_by |-> Root,
                    is_completed |-> FALSE]}
    /\ messages = {}
    /\ notifications = StoredFeed(2)
    /\ form = IdleForm
    /\ hook = Unmounted
    /\ inflight = <<>>
    /\ channel = <<>>
    /\ PagesClosed

\* The Team page, TaskDetails and the hook share no state: a behaviour
\* follows one of them.
NextFailure ==
    \/ /\ ~details.open /\ ~hook.mounted
       /\ \/ \E ok \in BOOLEAN : OpenTeam(Root, ok)
          \/ \E i \in 1..MaxInflight : fetchTeamMembersReturn(i)
          \/ \E userId \in Users, approve, ok \in BOOLEAN :
                handleApprovalCall(userId, approve, ok)
          \/ \E i \in 1..MaxInflight : handleApprovalReturn(i)
          \/ \E userId \in Users, newRole \in Roles, ok \in BOOLEAN :
                handleRoleChangeCall(userId, newRole, ok)
          \/ \E i \in 1..MaxInflight : handleRoleChangeReturn(i)
          \/ \E userId \in Users, ok \in BOOLEAN :
                handleDeleteUserCall(userId, ok)
          \/ \E i \in 1..MaxInflight : handleDeleteUserReturn(i)
    \/ /\ ~team.open /\ ~hook.mounted
       /\ \/ \E uid \in {Root, "b"}, ok \in BOOLEAN :
                OpenTaskDetails(uid, "t", ok)
          \/ \E ok \in BOOLEAN : SubtasksChanged(ok)
          \/ \E i \in 1..MaxInflight : fetchSubtasksReturn(i)
          \/ \E ok \in BOOLEAN : toggleSubtaskCall("s", ok)
          \/ \E i \in 1..MaxInflight : toggleSubtaskReturn(i)
          \/ \E ok \in BOOLEAN : addSubtaskCall(ok)
          \/ \E i \in 1..MaxInflight : addSubtaskReturn(i)
    \/ /\ ~team.open /\ ~details.open
       /\ \/ \E ok \in BOOLEAN : Mount(ok)
          \/ \E i \in 1..MaxInflight : fetchNotificationsReturn(i)
          \/ \E id \in 1..MaxNotifications, ok \in BOOLEAN :
                markAsReadCall(id, ok)
          \/ \E i \in 1..MaxInflight : markAsReadReturn(i)
          \/ \E ok \in BOOLEAN : markAllAsReadCall(ok)
          \/ \E i \in 1..MaxInflight : markAllAsReadReturn(i)
          \/ \E id \in 1..MaxNotifications, ok \in BOOLEAN :
                deleteNotificationCall(id, ok)
          \/ \E i \in 1..MaxInflight : deleteNotificationReturn(i)
          \/ Deliver

SpecFailure == InitFailure /\ [][NextFailure]_vars

----------------------------------------------------------------------------
(* ProjectForm: the members and leaders lists of the form, the handlers of *)
(* its controls, and its submit.                                           *)

\* entries of the members list and of the leaders list of the form
MaxFormList == 2

Elements(list) == {list[i] : i \in 1..Len(list)}

\* currentMembers.filter(id => id !== userId)
Without(list, userId) == SelectSeq(list, LAMBDA id : id # userId)

\* handleMemberToggle, lines 109-121
MemberToggled(values, userId, isChecked) ==
    IF isChecked
    THEN [values EXCEPT !.members = Append(values.members, userId)]
    ELSE [values EXCEPT
             !.members = Without(values.members, userId),
             !.leaders = IF userId \in Elements(values.leaders)
                         THEN Without(values.leaders, userId)
                         ELSE values.leaders]

LeaderToggledOnly(values, userId, isChecked) ==
    IF isChecked
    THEN [values EXCEPT !.leaders = Append(values.leaders, userId)]
    ELSE [values EXCEPT !.leaders = Without(values.leaders, userId)]

\* handleLeaderToggle, lines 123-137
LeaderToggled(values, userId, isChecked) ==
    IF isChecked
    THEN [values EXCEPT
             !.leaders = Append(values.leaders, userId),
             !.members = IF userId \notin Elements(values.members)
                         THEN Append(values.members, userId)
                         ELSE values.members]
    ELSE [values EXCEPT !.leaders = Without(values.leaders, userId)]

projectFormFrame == <<schema, auth_users, profiles, tasks, task_assignments,
                      subtasks, messages, notifications, form, hookVars,
                      details, board, route, team, peer>>

\* The dialog of a new project is opened: defaultValues of useForm.
OpenProjectForm(uid) ==
    /\ ~projectForm.open
    /\ uid \in auth_users
    /\ projectForm' = [ClosedProjectForm EXCEPT !.open = TRUE, !.uid = uid]
    /\ UNCHANGED <<auth_uid, projects, project_members, projectFormFrame>>

handleMemberToggle(userId, isChecked) ==
    /\ projectForm.open
    /\ userId \in fetchUsers
    /\ isChecked => Len(projectForm.members) < MaxFormList
    /\ projectForm' = MemberToggled(projectForm, userId, isChecked)
    /\ UNCHANGED <<auth_uid, projects, project_members, projectFormFrame>>

handleLeaderToggle(userId, isChecked) ==
    /\ projectForm.open
    /\ userId \in fetchUsers
    /\ isChecked => /\ Len(projectForm.leaders) < MaxFormList
                    /\ \/ userId \in Elements(projectForm.members)
                       \/ Len(projectForm.members) < MaxFormList
    /\ projectForm' = LeaderToggled(projectForm, userId, isChecked)
    /\ UNCHANGED <<auth_uid, projects, project_members, projectFormFrame>>

\* the list holds a user twice: the rows of the insert collide on
\* UNIQUE(project_id, user_id)
Repeats(list) ==
    \E i, j \in 1..Len(list) : i # j /\ list[i] = list[j]

\* handleSubmit, lines 144-192: the project is inserted, then its members
\* with is_leader = leaders.includes(userId); onSubmit closes the dialog.
ProjectFormSubmit(id, okProject, okMembers) ==
    /\ projectForm.open
    /\ id \notin {r.id : r \in projects}
    /\ LET uid == projectForm.uid
           created == okProject /\ ProjectsWrite(uid)
           membersData == MembersData(id, Elements(projectForm.members),
                                      Elements(projectForm.leaders))
           added == /\ created
                    /\ projectForm.members # <<>>
                    /\ okMembers
                    /\ ProjectMembersWrite(uid)
                    /\ ~Repeats(projectForm.members)
           succeeded == created /\ (projectForm.members = <<>> \/ added)
       IN /\ projects' = IF created THEN projects \cup {[id |-> id]}
                         ELSE projects
          /\ project_members' = IF added THEN project_members \cup membersData
                                ELSE project_members
          /\ projectForm' = [projectForm EXCEPT
                                !.open = ~succeeded,
                                !.project = IF created THEN id ELSE NULL,
                                !.toast = IF succeeded THEN "success"
                                          ELSE "error"]
          /\ auth_uid' = uid
    /\ UNCHANGED projectFormFrame

\* An admin and two approved developers, no project.
InitProjectForm ==
    /\ schema = "checked"
    /\ auth_uid = Root
    /\ auth_users = Users
    /\ profiles = {RootProfile} \cup
          {[user_id |-> u, role |-> "developer", is_approved |-> TRUE,
            first_name |-> "n0"] : u \in Users \ {Root}}
    /\ projects = {}
    /\ project_members = {}
    /\ tasks = {}
    /\ task_assignments = {}
    /\ subtasks = {}
    /\ messages = {}
    /\ notifications = <<>>
    /\ form = IdleForm
    /\ hook = Unmounted
    /\ inflight = <<>>
    /\ channel = <<>>
    /\ PagesClosed

NextProjectForm ==
    \/ OpenProjectForm(Root)
    \/ \E userId \in Users, isChecked \in BOOLEAN :
          handleMemberToggle(userId, isChecked)
    \/ \E userId \in Users, isChecked \in BOOLEAN :
          handleLeaderToggle(userId, isChecked)
    \/ \E okProject, okMembers \in BOOLEAN :
          ProjectFormSubmit("p", okProject, okMembers)

SpecProjectForm == InitProjectForm /\ [][NextProjectForm]_vars

----------------------------------------------------------------------------
(* Claims on the profiles policies and the signup trigger                  *)

\* C1: a user whose role is not admin never changes the role or the
\* is_approved flag of their own profile by a request of their own (such an
\* update is rejected and the row stays as it was), while an update of their
\* own name alone is accepted.
C1_NoSelfEscalation ==
    /\ [][\A r \in profiles :
            (auth_uid' = r.user_id /\ r.role # "admin") =>
                \E r2 \in profiles' :
                    /\ r2.user_id = r.user_id
                    /\ r2.role = r.role
                    /\ r2.is_approved = r.is_approved]_vars
    /\ [](\A r \in profiles : \A n \in Names :
            r.role # "admin" =>
                /\ ProfilesUpdateUsing(r.user_id, r)
                /\ ProfilesUpdateCheck(r.user_id, r, ApplyPatch(r, SetName(n))))

\* C5: every identity has a profile, and the profile a signup creates has
\* role developer and is_approved false.
C5_SignupCreatesProfile ==
    /\ [](\A id \in auth_users : \E r \in profiles : r.user_id = id)
    /\ [][\A id \in auth_users' \ auth_users :
            \E r \in profiles' :
                /\ r.user_id = id
                /\ r.role = "developer"
                /\ r.is_approved = FALSE]_vars

----------------------------------------------------------------------------
(* Claims on visibility                                                    *)

HasRow(u) == \E r \in profiles : r.user_id = u
RoleOf(u) == (CHOOSE r \in profiles : r.user_id = u).role
Approved(u) == \E r \in profiles : r.user_id = u /\ r.is_approved = TRUE
Member(u, p) ==
    \E pm \in project_members : pm.project_id = p /\ pm.user_id = u

\* C2: a user whose profile is not approved reads no project and no task, and
\* is_approved goes from false to true only by the request of an admin.
C2_UnapprovedSeesNothingUntilAdminApproves ==
    /\ [](\A r \in profiles :
            r.is_approved = FALSE =>
                /\ SelectProjects(r.user_id) = {}
                /\ fetchProjects(r.user_id) = {}
                /\ SelectTasks(r.user_id) = {})
    /\ [][\A r \in profiles :
            (/\ r.is_approved = FALSE
             /\ \E r2 \in profiles' :
                   r2.user_id = r.user_id /\ r2.is_approved = TRUE)
            => get_current_user_role(auth_uid') = "admin"]_vars

\* C3 as stated: a project is visible to a user iff the user has role admin,
\* or is a member of the project with an approved profile; for
\* can_access_project, for the rows the backend returns and for the list of
\* the Projects page.
C3_VisibleIffAdminOrApprovedMember ==
    \A u \in Users : \A r \in projects :
        LET stated == \/ HasRow(u) /\ RoleOf(u) = "admin"
                      \/ Member(u, r.id) /\ Approved(u)
        IN /\ can_access_project(u, r.id) <=> stated
           /\ r \in SelectProjects(u) <=> stated
           /\ r.id \in fetchProjects(u) <=> stated

\* C3 amended: a project is visible to a user iff the user's profile is
\* approved and the user has role admin or is a member of the project.
C3_VisibleIffApprovedAdminOrMember ==
    \A u \in Users : \A r \in projects :
        LET amended == /\ Approved(u)
                       /\ \/ RoleOf(u) = "admin"
                          \/ Member(u, r.id)
        IN /\ can_access_project(u, r.id) <=> amended
           /\ r \in SelectProjects(u) <=> amended
           /\ r.id \in fetchProjects(u) <=> amended

\* An approved developer lists a project of theirs and not the other one, while
\* a user with role admin whose profile is not approved lists nothing.
C3_Witness ==
    \E u \in Users, v \in Users : \E r \in projects, r2 \in projects :
        /\ Approved(u) /\ RoleOf(u) = "developer"
        /\ Member(u, r.id) /\ ~Member(u, r2.id)
        /\ fetchProjects(u) = {r.id}
        /\ HasRow(v) /\ RoleOf(v) = "admin" /\ ~Approved(v)
        /\ Member(v, r.id)
        /\ fetchProjects(v) = {}

\* C4: a task, its assignments, its subtasks and its messages are readable by
\* a user exactly when the user can access the task's project, whether or not
\* the user is assigned to the task.
C4_TaskRowsFollowProjectAccess ==
    \A u \in Users : \A t \in tasks :
        /\ t \in SelectTasks(u) <=> can_access_project(u, t.project_id)
        /\ \A ta \in task_assignments :
              ta.task_id = t.id =>
                 (ta \in SelectTaskAssignments(u)
                     <=> can_access_project(u, t.project_id))
        /\ \A st \in subtasks :
              st.task_id = t.id =>
                 (st \in SelectSubtasks(u)
                     <=> can_access_project(u, t.project_id))
        /\ \A m \in messages :
              m.task_id = t.id =>
                 (m \in SelectMessages(u)
                     <=> can_access_project(u, t.project_id))

\* A task with a subtask and a message, assigned to a member of its project,
\* who reads all of it, and to an approved non-member, who reads none of it.
C4_Witness ==
    \E u \in Users, v \in Users : \E t \in tasks :
        /\ Approved(u) /\ RoleOf(u) = "developer" /\ Member(u, t.project_id)
        /\ Approved(v) /\ RoleOf(v) = "developer" /\ ~Member(v, t.project_id)
        /\ {u, v} \subseteq {ta.user_id : ta \in {x \in task_assignments :
                                                     x.task_id = t.id}}
        /\ \E st \in subtasks : st.task_id = t.id
        /\ \E m \in messages : m.task_id = t.id
        /\ t \in SelectTasks(u)
        /\ SelectTaskAssignments(u) # {}
        /\ SelectSubtasks(u) # {}
        /\ SelectMessages(u) # {}
        /\ SelectTasks(v) = {}
        /\ SelectTaskAssignments(v) = {}
        /\ SelectSubtasks(v) = {}
        /\ SelectMessages(v) = {}

----------------------------------------------------------------------------
(* Claims on the assignment notifications of TaskForm (SpecTaskForm)       *)

\* The notifications of the current submit addressed to u.
NotifiedBySubmit(u) ==
    {i \in 1..Len(notifications) :
        /\ notifications[i].id \in form.notified
        /\ notifications[i].user_id = u}

\* The assignment notifications u has received for a task.
NotificationsFor(u, task_id) ==
    {i \in 1..Len(notifications) :
        /\ notifications[i].user_id = u
        /\ notifications[i].related_id = task_id}

EditCarriedOut ==
    /\ form.pc = "idle"
    /\ form.task # NULL
    /\ form.toast = "success"
    /\ ~form.failed

\* C6: an edit of a task whose requests all succeeded, made while the task
\* had the assignees Old (form.stored) and asking for the assignees New
\* (form.assigned_users), has created one notification for each user of
\* New \ Old and none for anyone else.
C6_EditNotifiesExactlyNewMinusOld ==
    EditCarriedOut =>
        \A u \in Users :
            Cardinality(NotifiedBySubmit(u)) =
                IF u \in form.assigned_users \ form.stored THEN 1 ELSE 0

\* An edit from {a, b} to {b, c} has been carried out and has notified.
C6_Witness ==
    /\ EditCarriedOut
    /\ form.stored = {"a", "b"}
    /\ form.assigned_users = {"b", "c"}
    /\ NotifiedBySubmit("c") # {}
    /\ StoredAssignees(form.task) = {"b", "c"}

\* C7 as stated: an edit that read the assignments without error never
\* notifies a user who already holds an assignment notification for the
\* task, so a user removed and later re-added gets no second one.
C7_NoSecondNotification ==
    [][(form.pc = "edit_notify" /\ ~form.failed) =>
          \A i \in (Len(notifications) + 1)..Len(notifications') :
             NotificationsFor(notifications'[i].user_id, form.task) = {}]_vars

\* C7 amended: every notification an edit creates is for a user of its new
\* assignee set who was not among the assignees the edit read before it
\* replaced them, one per such user at most; whether the user was assigned
\* and notified at an earlier time plays no part, so a user removed by one
\* edit and re-added by a later edit is notified again.
C7_NotifiedWhenAddedByTheEdit ==
    [][form.pc = "edit_notify" =>
          \A i \in (Len(notifications) + 1)..Len(notifications') :
             /\ notifications'[i].user_id \in
                   form.assigned_users \ form.currentUserIds
             /\ \A j \in (Len(notifications) + 1)..Len(notifications') :
                   notifications'[j].user_id = notifications'[i].user_id
                      => j = i]_vars

\* A carried-out edit found b unassigned, assigned b and notified b, who
\* holds an earlier assignment notification for the same task.
C7_Witness ==
    /\ EditCarriedOut
    /\ form.stored = {}
    /\ form.currentUserIds = {}
    /\ NotifiedBySubmit("b") # {}
    /\ Cardinality(NotificationsFor("b", form.task)) = 2
----------------------------------------------------------------------------
(* Claims on the useNotifications hook (SpecNotif)                         *)

Settled == inflight = <<>> /\ channel = <<>>

\* C8: whenever no response and no realtime event is pending, unreadCount
\* is the number of held notifications whose read flag is false.
C8_UnreadCountMatchesHeld ==
    Settled => hook.unreadCount = Cardinality(Unread(hook.notifications))

HeldRead(id) ==
    \E k \in 1..Len(hook.notifications) :
        /\ hook.notifications[k].id = id
        /\ hook.notifications[k].read

\* C9: a markAsRead of a notification that was already read when the
\* backend executed it and is held as read when it returns, in a state
\* whose unreadCount is the number of unread held notifications, and a
\* markAllAsRead that returns while no held notification is unread and
\* unreadCount is 0, leave the held notifications and unreadCount as they
\* were.
C9_MarkingReadIsIdempotent ==
    [][\A i \in 1..Len(inflight) :
          /\ (/\ markAsReadReturn(i)
              /\ inflight[i].already
              /\ HeldRead(inflight[i].id)
              /\ hook.unreadCount = Cardinality(Unread(hook.notifications)))
             => (/\ hook'.notifications = hook.notifications
                 /\ hook'.unreadCount = hook.unreadCount)
          /\ (/\ markAllAsReadReturn(i)
              /\ Unread(hook.notifications) = {}
              /\ hook.unreadCount = 0)
             => (/\ hook'.notifications = hook.notifications
                 /\ hook'.unreadCount = hook.unreadCount)]_vars

OwnRows(rows) == {i \in 1..Len(rows) : rows[i].user_id = HookUser}

\* C10: when a markAllAsRead returns without error, unreadCount is 0 and
\* every notification the hook holds has read = true, in the hook and, as
\* long as it is stored, in the backend.
C10_MarkAllAsReadMarksAll ==
    [][\A i \in 1..Len(inflight) :
          (markAllAsReadReturn(i) /\ inflight[i].ok) =>
              /\ hook'.unreadCount = 0
              /\ Unread(hook'.notifications) = {}
              /\ \A k \in OwnRows(notifications') :
                    notifications'[k].id \in Ids(hook'.notifications)
                       => notifications'[k].read]_vars
----------------------------------------------------------------------------
(* Claims on the feed (SpecFeed)                                           *)

\* The position of a stored notification in the order of creation; 0 when
\* it is not stored.
CreatedAt(id) ==
    IF id \in NotificationIds
    THEN CHOOSE i \in 1..Len(notifications) : notifications[i].id = id
    ELSE 0

\* C11: the held notifications are in the order of creation, latest first,
\* and there are never more than 50 of them.
C11_FeedOrderedAndCapped ==
    /\ Len(hook.notifications) <= NotificationsLimit
    /\ \A i, j \in 1..Len(hook.notifications) :
          i < j => CreatedAt(hook.notifications[i].id)
                      > CreatedAt(hook.notifications[j].id)
----------------------------------------------------------------------------
(* Claims on the subtasks of TaskDetails (SpecSubtasks)                    *)

StoredFlag(id) == {r.is_completed : r \in {x \in subtasks : x.id = id}}

HeldFlag(id) == {r.is_completed : r \in {x \in details.subtasks : x.id = id}}

\* C12: when two toggles of one subtask, called one after the other, have
\* both returned without error, the flag of the subtask is what it was
\* before the first of them, in the backend and in the local list.
C12_ToggleTwiceRestores ==
    (/\ Len(details.pair) = 2
     /\ details.pair[1].ok /\ details.pair[2].ok
     /\ details.pending = <<>>)
    => (/\ StoredFlag(details.pair[1].id) = details.pair[1].stored
        /\ HeldFlag(details.pair[1].id) = {details.pair[1].local})

\* C13: the request that changes a subtask row comes from the creator of
\* the subtask, from a user assigned to the task of the subtask, or from
\* an admin.
C13_SubtaskUpdatedByCreatorAssigneeOrAdmin ==
    [][\A r \in subtasks :
          r \notin subtasks' =>
              \/ r.created_by = auth_uid'
              \/ [task_id |-> r.task_id, user_id |-> auth_uid']
                    \in task_assignments
              \/ is_admin(auth_uid')]_vars
----------------------------------------------------------------------------
(* Claims on the status of tasks (SpecTaskStatus, SpecBoard, SpecBoardLive) *)

\* C14: a status write for a task by an admin, or by a user who is not
\* admin and to whom the task is visible, takes effect: the task has the
\* written status afterwards.
C14_StatusWriteTakesEffect ==
    [][\A uid \in Users, taskId \in {"t", OtherTask}, status \in TaskStatuses :
          (/\ UpdateTaskStatus(uid, taskId, status)
           /\ \/ is_admin(uid)
              \/ taskId \in {r.id : r \in SelectTasks(uid)})
          => \E r \in tasks' : r.id = taskId /\ r.status = status]_vars

\* C15: every stored task and every task held by the board has one of the
\* six statuses, so every held task is in one column.
C15_StatusInEnum ==
    /\ \A r \in tasks : r.status \in TaskStatuses
    /\ \A r \in board.tasks : r.status \in TaskStatuses

Displayed == {<<r.id, r.status>> : r \in board.tasks}

Stored == {<<r.id, r.status>> : r \in FetchedTasks(board.uid)}

----------------------------------------------------------------------------
(* Claim on is_leader (SpecLeader)                                         *)

MemberKeys(rows) == {<<r.project_id, r.user_id>> : r \in rows}

AssignmentKeys(rows) == {<<r.task_id, r.user_id>> : r \in rows}

RowIds(rows) == {r.id : r \in rows}

\* what the policies let uid read and write
Access(uid) ==
    [projects |-> RowIds(SelectProjects(uid)),
     project_members |-> MemberKeys(SelectProjectMembers(uid)),
     tasks |-> RowIds(SelectTasks(uid)),
     task_assignments |-> AssignmentKeys(SelectTaskAssignments(uid)),
     subtasks |-> RowIds(SelectSubtasks(uid)),
     messages |-> RowIds(SelectMessages(uid)),
     write |-> <<ProjectsWrite(uid), ProjectMembersWrite(uid),
                 TasksWrite(uid), TaskAssignmentsWrite(uid),
                 SubtasksInsert(uid)>>,
     tasks_update |-> RowIds({r \in tasks : TasksUpdate(uid, r)}),
     subtasks_update |-> RowIds({r \in subtasks : SubtasksUpdate(uid, r)}),
     messages_insert |->
        {<<k, q>> \in (RowIds(tasks) \cup {NULL}) \X
                      (RowIds(projects) \cup {NULL}) :
            MessagesInsert(uid, [id |-> "m2", task_id |-> k,
                                 project_id |-> q, sender_id |-> uid])}]

\* the step changes is_leader values and nothing else of the tables
OnlyLeaderChanged ==
    /\ MemberKeys(project_members') = MemberKeys(project_members)
    /\ AssignmentKeys(task_assignments') = AssignmentKeys(task_assignments)
    /\ <<project_members, task_assignments>>' #
          <<project_members, task_assignments>>
    /\ UNCHANGED <<profiles, projects, tasks, subtasks, messages>>

\* C16: two states that differ only in is_leader values allow every user
\* the same reads and writes.
C16_LeaderHasNoInfluence ==
    [][OnlyLeaderChanged => \A uid \in Users : Access(uid)' = Access(uid)]_vars

\* b is a leader of the project and of the task, c a plain member, both
\* approved, and b is allowed exactly what c is allowed on the tables whose
\* policies do not name the user
C16_Witness ==
    /\ \E pm \in project_members : pm.user_id = "b" /\ pm.is_leader
    /\ \E pm \in project_members : pm.user_id = "c" /\ ~pm.is_leader
    /\ \E ta \in task_assignments : ta.user_id = "b" /\ ta.is_leader
    /\ \A p \in profiles : p.is_approved
    /\ auth_uid = Root
    /\ Access("b").tasks = {"t"}
    /\ Access("b").write = Access("c").write
----------------------------------------------------------------------------
(* Claim on ProtectedRoute (SpecRoute)                                     *)

MayEnter ==
    /\ ~route.loading
    /\ route.user # NULL
    /\ \E r \in route.profile : r.is_approved
    /\ route.requireAdmin => \E r \in route.profile : r.role = "admin"

\* C17: the children are rendered exactly when loading is finished, a user
\* is authenticated, the profile exists and is approved and, with
\* requireAdmin, has the role admin; otherwise the first that applies of
\* spinner (loading), redirect to /auth (no user), pending approval (no
\* approved profile), redirect to /dashboard.
C17_ProtectedRouteRenders ==
    /\ route.rendered = "children" <=> MayEnter
    /\ route.loading => route.rendered = "spinner"
    /\ ~route.loading /\ route.user = NULL => route.rendered = "auth"
    /\ (/\ ~route.loading /\ route.user # NULL
        /\ \A r \in route.profile : ~r.is_approved)
       => route.rendered = "pending"
    /\ (~MayEnter /\ route.rendered \notin {"spinner", "auth", "pending"})
       => route.rendered = "dashboard"

\* the children of an admin route are rendered for an approved admin, after
\* the route showed something else
C17_Witness ==
    /\ route.rendered = "children"
    /\ route.requireAdmin
    /\ route.user = "b"
    /\ \E r \in route.profile : r.role = "admin"
----------------------------------------------------------------------------
(* Claim on the notifications of other users (SpecNotif)                   *)

RowsOfOthers(rows) ==
    {rows[i] : i \in {k \in 1..Len(rows) : rows[k].user_id # HookUser}}

\* C18: markAsRead, markAllAsRead and deleteNotification of the user of the
\* hook neither modify nor remove a notification of another user: every
\* such notification is stored unchanged after every step.
C18_OnlyOwnNotificationsWritten ==
    [][RowsOfOthers(notifications) \subseteq RowsOfOthers(notifications')]_vars

\* the hook has marked a notification of its user read and has deleted
\* another one, while an unread notification of another user is stored
C18_Witness ==
    /\ \E n \in RowsOfOthers(notifications) : ~n.read
    /\ \E i \in OwnRows(notifications) : notifications[i].read
    /\ \E i \in 1..Len(inflight) :
          /\ inflight[i].op = "deleteNotification"
          /\ inflight[i].ok
          /\ inflight[i].id \notin Ids(notifications)
----------------------------------------------------------------------------
(* Claim on the attachment of a message (SpecMessages)                     *)

\* C19: every stored message has file_url and file_name both set or both
\* null.
C19_AttachmentPairComplete ==
    \A r \in messages : (r.file_url = NULL) <=> (r.file_name = NULL)
----------------------------------------------------------------------------
(* Claims on the edit of a task that follows a stopped edit (SpecTaskEdit) *)

\* C21: an edit that stopped after its delete and before its insert leaves
\* the task without assignee; the edit submitted after it with the
\* assignment set S, when it reports success, has stored exactly S.
C21_EditAfterStopStoresSubmitted ==
    (/\ form.after_stop
     /\ form.task # NULL
     /\ form.pc = "idle"
     /\ form.toast = "success")
    => StoredAssignees(form.task) = form.assigned_users

\* an edit stopped after the delete of two assignments, and the next edit
\* has stored its two assignees
C21_Witness ==
    /\ form.after_stop
    /\ form.pc = "idle"
    /\ form.toast = "success"
    /\ form.stored = {}
    /\ form.assigned_users = {"a", "b"}
    /\ StoredAssignees("t") = {"a", "b"}
    /\ Len(notifications) >= 2
(* C22: when the write of toggleSubtask, addSubtask, handleApproval,       *)
(* handleRoleChange, handleDeleteUser, markAsRead, markAllAsRead or        *)
(* deleteNotification returns an error, neither the part of the handler    *)
(* before the await nor the part after it changes the subtask list, the    *)
(* member list, the notification list or unreadCount.                      *)
LocalState ==
    <<details.subtasks, team.members, hook.notifications, hook.unreadCount>>

FailedWriteStep ==
    \/ \E i \in 1..Len(details.pending) :
          /\ ~details.pending[i].ok
          /\ toggleSubtaskReturn(i) \/ addSubtaskReturn(i)
    \/ \E i \in 1..Len(team.pending) :
          /\ ~team.pending[i].ok
          /\ \/ handleApprovalReturn(i)
             \/ handleRoleChangeReturn(i)
             \/ handleDeleteUserReturn(i)
    \/ \E i \in 1..Len(inflight) :
          /\ ~inflight[i].ok
          /\ \/ markAsReadReturn(i)
             \/ markAllAsReadReturn(i)
             \/ deleteNotificationReturn(i)
    \/ toggleSubtaskCall("s", FALSE)
    \/ addSubtaskCall(FALSE)
    \/ \E userId \in Users, approve \in BOOLEAN :
          handleApprovalCall(userId, approve, FALSE)
    \/ \E userId \in Users, newRole \in Roles :
          handleRoleChangeCall(userId, newRole, FALSE)
    \/ \E userId \in Users : handleDeleteUserCall(userId, FALSE)
    \/ \E id \in 1..MaxNotifications :
          markAsReadCall(id, FALSE) \/ deleteNotificationCall(id, FALSE)
    \/ markAllAsReadCall(FALSE)

C23_FailureShowsError ==
    (form.pc = "idle" /\ form.failed) => form.toast = "error"

(* C24: a toggle of a subtask that returns without error and that the      *)
(* policies let through inverts the flag stored for the subtask, whatever  *)
(* value the caller has observed.                                          *)
C24_SuccessfulToggleInverts ==
    [][(/\ toggleSubtaskCall("s", TRUE)
        /\ \E r \in subtasks : r.id = "s" /\ SubtasksUpdate(details.uid, r))
       => StoredFlag("s")' # StoredFlag("s")]_vars

(* C25: an edit of a task submitted with the assignee control untouched    *)
(* (assigned_users as useForm initialised it), every request of which      *)
(* succeeded, leaves the assignees stored for the task as they were when   *)
(* the edit was submitted, and creates no notification.                    *)
C25_UntouchedAssigneesKept ==
    (/\ form.pc = "idle"
     /\ form.task # NULL
     /\ form.toast = "success"
     /\ ~form.failed
     /\ form.assigned_users = DefaultAssignedUsers(form.task))
    => (/\ StoredAssignees(form.task) = form.stored
        /\ form.notified = {})

(* C26: when the edits of one task submitted by two sessions have both     *)
(* ended with the success notice, no request of either having failed, the  *)
(* assignees stored for the task are the set submitted by one of them.     *)
C26_ConcurrentEditsStoreOneSet ==
    (/\ form.pc = "idle" /\ form.toast = "success" /\ ~form.failed
     /\ peer.pc = "idle" /\ peer.toast = "success" /\ ~peer.failed
     /\ form.task = peer.task)
    => StoredAssignees(form.task) \in {form.assigned_users, peer.assigned_users}

(* C27: once the fetch of the mounted hook has returned and every event    *)
(* has been handled, each notification stored for the user is held once in *)
(* the list, and unreadCount is the number of them that are unread.        *)
Held(id) ==
    {i \in 1..Len(hook.notifications) : hook.notifications[i].id = id}

C27_ArrivalHeldOnce ==
    (hook.mounted /\ inflight = <<>> /\ channel = <<>>)
    => LET own == {i \in 1..Len(notifications) :
                      notifications[i].user_id = HookUser}
       IN /\ \A i \in own : Cardinality(Held(notifications[i].id)) = 1
          /\ hook.unreadCount =
                Cardinality({i \in own : ~notifications[i].read})

(* C28: when a create submit of TaskForm has ended with the error notice,  *)
(* the task it asked for is not in the backend.                            *)
C28_FailedCreateAddsNoTask ==
    (form.pc = "idle" /\ form.task = NULL /\ form.toast = "error")
    => form.newTask \notin {r.id : r \in tasks}

(* C29: in ProjectForm every user of the leaders list is in the members    *)
(* list, whatever handleMemberToggle and handleLeaderToggle calls were     *)
(* made, and after a submit that reported success every user of the        *)
(* leaders list has a project_members row of the new project with          *)
(* is_leader = true.                                                       *)
C29_LeadersAreMembers ==
    /\ Elements(projectForm.leaders) \subseteq Elements(projectForm.members)
    /\ projectForm.toast = "success" =>
          \A l \in Elements(projectForm.leaders) :
              [project_id |-> projectForm.project, user_id |-> l,
               is_leader |-> TRUE] \in project_members

\* a project was created from a form in which a leader was chosen for a
\* user who was not a member, beside a member who is no leader
C29_Witness ==
    /\ projectForm.toast = "success"
    /\ projectForm.leaders # <<>>
    /\ projectForm.members # <<>>
    /\ projectForm.members[Len(projectForm.members)] = projectForm.leaders[1]
    /\ Len(projectForm.members) > Len(projectForm.leaders)

(* C30: a user who has been notified of an assignment made through         *)
(* TaskForm, and is stored as assignee of the task, can access the project *)
(* of the task and can read the task.                                      *)
C30_AssigneeReadsTask ==
    \A i \in 1..Len(notifications) :
        \A t \in tasks :
            (/\ t.id = notifications[i].related_id
             /\ notifications[i].user_id \in StoredAssignees(t.id))
            => /\ can_access_project(notifications[i].user_id, t.project_id)
               /\ TasksSelect(notifications[i].user_id, t)

====
